---- MODULE Spec2Model ----
(***************************************************************************)
(* Model of the allow_pin buffer-sharing layer of tock/design-explorations *)
(* (src/allow_pin/src): the dynamic_type, full_dynamic and no_dynamic      *)
(* Buffer variants, the raw Allow system call they issue, the kernel's     *)
(* table of allowed buffers that the system call updates, and the          *)
(* double-buffer streams of src/allow_pin/examples built on the Buffers.   *)
(***************************************************************************)
EXTENDS FiniteSets, Integers, Sequences, TLC

(***************************************************************************)
(* Bounds of the model.                                                    *)
(***************************************************************************)
\* The kernel rejects an Allow with an error code in 1..MaxErr.
MaxErr == 2
\* A stream is advanced at most MaxAdvance times after a start.
MaxAdvance == 3
\* The contents of a storage are a value in 0..MaxVal.
MaxVal == 1

(***************************************************************************)
(* Program constants.                                                      *)
(***************************************************************************)
\* enum DynamicType { Rw = 3, Ro = 4 }: the system call class of the Allow.
Rw == 3
Ro == 4
DynamicType == {Rw, Ro}

\* The return variant of a rejected Allow: r1 then carries the error code.
FAILURE_2_U32 == 2
\* Return variants from 128 on report success.
SUCCESS == 128

\* Err(3): allow() on a Buffer that is already shared.
AlreadyShared == 3
\* Err(6): replace_with() on a Buffer that is not shared.
NotShared == 6
\* Err(9): allow() on a StaticBuffer that holds no reference.
NoBufferRef == 9

\* r1.addr() as u32: pointers are 32 bits wide on the targets (arm, riscv32),
\* so the cast keeps the value of the register.
as_u32(r) == r

\* The (driver_num, buffer_num) pairs the examples use: the RNG driver's
\* buffer 0 and the console driver's buffer 1.
RNG_DRIVER == 262145
RNG_BUFFER == 0
CONSOLE_DRIVER == 1
CONSOLE_BUFFER == 1
Ids == {<<RNG_DRIVER, RNG_BUFFER>>, <<CONSOLE_DRIVER, CONSOLE_BUFFER>>}

(***************************************************************************)
(* The Buffer objects of the model.  A and B are dynamic_type Buffers with *)
(* the same const (DRIVER_NUM, BUFFER_NUM), as the two sides of a stream   *)
(* are; F is a full_dynamic Buffer; S is a full_dynamic StaticBuffer built *)
(* from a reference to static data and D one built with Default.           *)
(***************************************************************************)
DtBufs == {"A", "B"}
FdBufs == {"F"}
SbBufs == {"S", "D"}
Bufs == DtBufs \cup FdBufs \cup SbBufs
\* Buffers that own their storage: dropping the Buffer releases it.
OwnedBufs == DtBufs \cup FdBufs
\* NA and NB are no_dynamic Buffers<StaticRw, ..> with the same const id.
NdBufs == {"NA", "NB"}
\* RA and RB are no_dynamic Buffers<StaticRo, ..> with the same const id.
NdRoBufs == {"RA", "RB"}
NoDynamicBufs == NdBufs \cup NdRoBufs
\* A StaticRw and a StaticRo no_dynamic Buffer of one (DRIVER_NUM,
\* BUFFER_NUM), as rw_buffer and ro_buffer of app::<8198, 9, 9, _, _>.
NdMixedBufs == {"NA", "RA"}
AllBufs == Bufs \cup NoDynamicBufs

\* The sets of Buffers a program constructs: the two sides of a stream next
\* to a full_dynamic Buffer, or the Buffers of the full_dynamic module.
Programs == {{"A", "B", "F"}, {"F", "S", "D"}}

\* Option<T>: None is the empty sequence, Some(x) the sequence <<x>>.
None == <<>>
Some(x) == <<x>>
is_some(o) == o # None
unwrap(o) == o[1]

\* The address of the storage (the `buffer` field of an owned Buffer, the
\* static data a StaticBuffer refers to); 0 is the null pointer.
Addr(b) ==
    CASE b = "A" -> 16
      [] b = "B" -> 24
      [] b = "F" -> 32
      [] b = "S" -> 64
      [] b = "NA" -> 72
      [] b = "NB" -> 80
      [] b = "RA" -> 88
      [] b = "RB" -> 96
      [] OTHER -> 0

\* size_of_val of the storage: [u8; 8] for the stream sides, b"hi" else.
size_of_val(b) ==
    CASE b \in DtBufs \cup NoDynamicBufs -> 8
      [] b \in {"F", "S"} -> 2
      [] OTHER -> 0

\* StaticBuffer::buffer_ref: Some(&'static B) from From, None from Default.
buffer_ref(b) == IF b = "S" THEN Some(Addr(b)) ELSE None

\* Addresses at which the build can place the temporary of StaticBuffer::allow.
StackTemps == {40, 44}

\* const DRIVER_NUM, const BUFFER_NUM of a dynamic_type or no_dynamic Buffer.
DRIVER_NUM(b) == RNG_DRIVER
BUFFER_NUM(b) == RNG_BUFFER

\* full_dynamic::ShareInfo
ShareInfo == [allow_type : DynamicType, driver_num : {RNG_DRIVER, CONSOLE_DRIVER},
              buffer_num : {RNG_BUFFER, CONSOLE_BUFFER}]

\* A registration of the kernel: the address and length of the last accepted
\* Allow; a null pointer of length 0 is no registration.
NullReg == [addr |-> 0, len |-> 0]

\* The answers of the kernel to an Allow: 0 accepts, an error code rejects.
Answers == 0..MaxErr

VARIABLES
    live,      \* live[b]: Buffer b has been constructed and not yet dropped
    shared,    \* shared[b]: the `shared` field of Buffer b
    kernel,    \* kernel[<<id, allow_type>>]: the kernel's registration
    last,      \* the last operation: its receiver, result and system calls
    mem,       \* mem[b]: the contents of the storage of Buffer b
    share_status,  \* StreamingReceiveSlice::share_status (no_dynamic stream)
    advances,  \* next() calls since start() succeeded, every Allow accepted
               \* by the kernel since; -1 when there is no such run
    started,   \* start() of the stream has returned Ok(())
    buffer_data,  \* lw drivers: buffer_data[d], the field of driver d (0: null)
    buffer_len,   \* lw drivers: buffer_len[d]
    pending,      \* pending[d]: the kernel runs a command of d, upcall due
    allowed,      \* allowed[d]: the address the kernel holds for d (0: none)
    owner,        \* owner[b]: who holds the &'static mut [u8] b
    delivered,    \* the responses the last operation passed to the client
    poisoned,     \* poisoned[d]: an un-allow of d failed in its callback
    borrowed,     \* StaticMutCell: borrowed[c], the field of cell c
    refs,         \* refs[c]: the live &'static mut references to c's value
    future,       \* Task: the Option in the RefCell `future`
    pending_poll, \* Task: the field pending_poll
    polls,        \* the polls of the stored future since it was spawned
    rng_STATE,    \* futures/rng.rs: the static STATE
    made,         \* an RngFuture has been returned by RngFuture::new
    dropped,      \* the buffers whose reference RngFuture::new dropped
    ret,          \* what the last operation on RngFuture returned
    BUTTON_LIST,  \* futures/button.rs: the static BUTTON_LIST
    button_next,  \* button_next[b]: the field `next` of Button b
    button_state, \* button_state[b]: the field `state` of Button b
    subscribed,   \* a subscribe of the button driver has returned SUCCESS
    button_futures,  \* the Buttons for which new has returned a ButtonFuture
    hung,         \* the program is inside a loop that does not end
    bret          \* what the last operation on ButtonFuture returned

\* The state of the lightweight drivers (zst_pointer_async/lw).
lwVars == <<buffer_data, buffer_len, pending, allowed, owner, delivered, poisoned>>

\* The state of the StaticMutCells (zst_pointer_async/lw/async_util.rs).
cellVars == <<borrowed, refs>>

\* The state of the Task (size_comparison/futures/src/task.rs).
taskVars == <<future, pending_poll, polls>>

\* The state of the RngFuture (zst_pointer_async/futures/rng.rs), which
\* has the Rng driver of lwVars as its static RNG.
rngVars == <<rng_STATE, made, dropped, ret>>

\* The state of the Buttons (zst_pointer_async/futures/button.rs).
buttonVars == <<BUTTON_LIST, button_next, button_state, subscribed,
                button_futures, hung, bret>>

\* The state outside the allow_pin crate.
asyncVars == <<lwVars, cellVars, taskVars, rngVars, buttonVars>>

\* The state of the allow_pin Buffers and streams.
bufferVars == <<live, shared, kernel, mem, share_status, advances, started>>

\* What the operations of the drivers, of the cells and of the Task leave
\* alone.
notLwVars == <<bufferVars, cellVars, taskVars, buttonVars>>
notCellVars == <<bufferVars, lwVars, taskVars, rngVars, buttonVars>>
notTaskVars == <<bufferVars, lwVars, cellVars, rngVars, buttonVars>>
notButtonVars == <<bufferVars, lwVars, cellVars, taskVars, rngVars>>

vars == <<live, shared, kernel, last, mem, share_status, advances, started, asyncVars>>

\* The state the operations on single Buffers leave alone.  allow and
\* replace_with (replace_with_mut) are called by the streams as well, which
\* update streamVars themselves.
streamVars == <<share_status, advances, started, asyncVars>>
otherVars == <<mem, share_status, advances, started, asyncVars>>

\* The record of an operation.  args are the allow type and id the caller
\* named; res is 0 for Ok(()) and the error code for Err; ref is the address
\* of the storage reference returned, 0 for none; -1 where the operation
\* returns no such value; calls are the system calls it made with the
\* kernel's answers; repeat says that the operation before it was an unallow
\* of the same Buffer that issued an un-allow system call; saved is, after
\* an allow that returned Ok and after the unallow that directly follows it,
\* the contents the storage had when allow was called, and -1 otherwise.
Op(op, self, other, args, res, ref, calls) ==
    [op |-> op, self |-> self, other |-> other, args |-> args, res |-> res,
     ref |-> ref, calls |-> calls,
     repeat |-> op = "unallow" /\ last.op = "unallow" /\ last.self = self
                /\ (last.calls # <<>> \/ last.repeat),
     saved |-> IF op = "allow" /\ res = 0 THEN mem[self]
               ELSE IF op = "unallow" /\ last.op = "allow" /\ last.self = self
               THEN last.saved ELSE -1]

(***************************************************************************)
(* The raw Allow system call (lib.rs).  sys is the kernel's table together *)
(* with the log of the calls made by the running operation.                *)
(***************************************************************************)
dynamic_allow(sys, driver_num, allow_num, address, len, allow_type, ans) ==
    LET slot == <<<<driver_num, allow_num>>, allow_type>>
        call == [driver_num |-> driver_num, allow_num |-> allow_num,
                 address |-> address, len |-> len, allow_type |-> allow_type,
                 ans |-> ans]
    IN  IF ans = 0
        THEN [kernel |-> [sys.kernel EXCEPT ![slot] = [addr |-> address, len |-> len]],
              calls |-> Append(sys.calls, call),
              variant |-> SUCCESS,
              r1 |-> sys.kernel[slot].addr]
        ELSE [kernel |-> sys.kernel,
              calls |-> Append(sys.calls, call),
              variant |-> FAILURE_2_U32,
              r1 |-> ans]

\* The outcome of a call of the library: the kernel and call log, and a Result.
Outcome(sys, res) == [kernel |-> sys.kernel, calls |-> sys.calls, res |-> res]

(***************************************************************************)
(* dynamic_type.rs                                                         *)
(***************************************************************************)
\* allow_inner returning the variant of the failure instead of the error code.
Mut_allow_inner(sys, driver_num, buffer_num, address, len, allow_type, ans) ==
    LET r == dynamic_allow(sys, driver_num, buffer_num, address, len, allow_type, ans)
    IN  IF r.variant = 2 THEN Outcome(r, r.variant) ELSE Outcome(r, 0)

allow_inner(sys, driver_num, buffer_num, address, len, allow_type, ans) ==
    LET r == dynamic_allow(sys, driver_num, buffer_num, address, len, allow_type, ans)
    IN  IF r.variant = 2 THEN Outcome(r, as_u32(r.r1)) ELSE Outcome(r, 0)

\* An un-allow: the kernel honours it at once.
unshare(sys, driver_num, buffer_num, allow_type) ==
    Outcome(dynamic_allow(sys, driver_num, buffer_num, 0, 0, allow_type, 0), 0)

Start == [kernel |-> kernel, calls |-> <<>>]

\* Buffer::allow without the check that the Buffer is not shared yet.
Mut_dynamic_type_allow(b, allow_type, ans) ==
    /\ b \in DtBufs /\ live[b]
    /\ UNCHANGED mem
    /\ LET r == allow_inner(Start, DRIVER_NUM(b), BUFFER_NUM(b), Addr(b), size_of_val(b),
                            allow_type, ans)
       IN  /\ kernel' = r.kernel
           /\ shared' = IF r.res # 0 THEN shared
                        ELSE [shared EXCEPT ![b] = Some(allow_type)]
           /\ last' = Op("allow", b, "", <<allow_type, DRIVER_NUM(b), BUFFER_NUM(b)>>,
                         r.res, -1, r.calls)
           /\ UNCHANGED live

\* Buffer::allow
dynamic_type_allow(b, allow_type, ans) ==
    /\ b \in DtBufs /\ live[b]
    /\ UNCHANGED mem
    /\ IF is_some(shared[b])
       THEN /\ last' = Op("allow", b, "", <<allow_type, DRIVER_NUM(b), BUFFER_NUM(b)>>, AlreadyShared, -1, <<>>)
            /\ UNCHANGED <<live, shared, kernel>>
       ELSE LET r == allow_inner(Start, DRIVER_NUM(b), BUFFER_NUM(b), Addr(b), size_of_val(b),
                                 allow_type, ans)
            IN  /\ kernel' = r.kernel
                /\ shared' = IF r.res # 0 THEN shared
                             ELSE [shared EXCEPT ![b] = Some(allow_type)]
                /\ last' = Op("allow", b, "", <<allow_type, DRIVER_NUM(b), BUFFER_NUM(b)>>, r.res, -1, r.calls)
                /\ UNCHANGED live

\* Buffer::buffer and Buffer::buffer_mut: the reference returned, 0 for None.
dynamic_type_buffer_ref(b) == IF is_some(shared[b]) THEN 0 ELSE Addr(b)

dynamic_type_buffer(b) ==
    /\ b \in DtBufs /\ live[b]
    /\ UNCHANGED otherVars
    /\ last' = Op("buffer", b, "", <<>>, -1, dynamic_type_buffer_ref(b), <<>>)
    /\ UNCHANGED <<live, shared, kernel>>

dynamic_type_buffer_mut(b) ==
    /\ b \in DtBufs /\ live[b]
    /\ UNCHANGED otherVars
    /\ last' = Op("buffer_mut", b, "", <<>>, -1, dynamic_type_buffer_ref(b), <<>>)
    /\ UNCHANGED <<live, shared, kernel>>

\* Buffer::unallow that leaves the `shared` field set.
Mut_dynamic_type_unallow(b) ==
    /\ b \in DtBufs /\ live[b]
    /\ UNCHANGED otherVars
    /\ LET r == IF is_some(shared[b])
                THEN unshare(Start, DRIVER_NUM(b), BUFFER_NUM(b), unwrap(shared[b]))
                ELSE Outcome(Start, 0)
       IN  /\ kernel' = r.kernel
           /\ last' = Op("unallow", b, "", <<>>, -1, Addr(b), r.calls)
    /\ UNCHANGED <<live, shared>>

\* Buffer::unallow
dynamic_type_unallow(b) ==
    /\ b \in DtBufs /\ live[b]
    /\ UNCHANGED otherVars
    /\ LET r == IF is_some(shared[b])
                THEN unshare(Start, DRIVER_NUM(b), BUFFER_NUM(b), unwrap(shared[b]))
                ELSE Outcome(Start, 0)
       IN  /\ kernel' = r.kernel
           /\ shared' = [shared EXCEPT ![b] = None]
           /\ last' = Op("unallow", b, "", <<>>, -1, Addr(b), r.calls)
    /\ UNCHANGED live

\* Buffer::replace_with that treats a Buffer that is not shared as shared
\* read-write.
Mut_dynamic_type_replace_with(b, other, ans) ==
    /\ b \in DtBufs /\ other \in DtBufs /\ b # other
    /\ UNCHANGED mem
    /\ live[b] /\ live[other]
    /\ LET allow_type == IF is_some(shared[b]) THEN unwrap(shared[b]) ELSE Rw
           r == allow_inner(Start, DRIVER_NUM(b), BUFFER_NUM(b), Addr(b),
                            size_of_val(b), allow_type, ans)
       IN  /\ kernel' = r.kernel
           /\ shared' = [shared EXCEPT ![b] = None, ![other] = Some(allow_type)]
           /\ last' = Op("replace_with", b, other, <<>>, 0, Addr(b), r.calls)
    /\ UNCHANGED live

\* Buffer::replace_with
dynamic_type_replace_with(b, other, ans) ==
    /\ b \in DtBufs /\ other \in DtBufs /\ b # other
    /\ UNCHANGED mem
    /\ live[b] /\ live[other]
    /\ DRIVER_NUM(b) = DRIVER_NUM(other) /\ BUFFER_NUM(b) = BUFFER_NUM(other)
    /\ IF is_some(shared[b])
       THEN LET allow_type == unwrap(shared[b])
                r == allow_inner(Start, DRIVER_NUM(b), BUFFER_NUM(b), Addr(b),
                                 size_of_val(b), allow_type, ans)
            IN  /\ kernel' = r.kernel
                /\ shared' = [shared EXCEPT ![b] = None, ![other] = Some(allow_type)]
                /\ last' = Op("replace_with", b, other, <<>>, 0, Addr(b), r.calls)
       ELSE /\ last' = Op("replace_with", b, other, <<>>, NotShared, Addr(b), <<>>)
            /\ UNCHANGED <<shared, kernel>>
    /\ UNCHANGED live

\* impl Drop for Buffer without the unshare.
Mut_dynamic_type_drop(b) ==
    /\ b \in DtBufs /\ live[b]
    /\ last' = Op("drop", b, "", <<>>, -1, -1, <<>>)
    /\ live' = [live EXCEPT ![b] = FALSE]
    /\ UNCHANGED <<shared, kernel, otherVars>>

\* impl Drop for Buffer
dynamic_type_drop(b) ==
    /\ b \in DtBufs /\ live[b]
    /\ UNCHANGED otherVars
    /\ LET r == IF is_some(shared[b])
                THEN unshare(Start, DRIVER_NUM(b), BUFFER_NUM(b), unwrap(shared[b]))
                ELSE Outcome(Start, 0)
       IN  /\ kernel' = r.kernel
           /\ last' = Op("drop", b, "", <<>>, -1, -1, r.calls)
    /\ live' = [live EXCEPT ![b] = FALSE]
    /\ UNCHANGED shared

(***************************************************************************)
(* full_dynamic.rs                                                         *)
(***************************************************************************)
full_dynamic_unshare(sys, info) ==
    Outcome(dynamic_allow(sys, info.driver_num, info.buffer_num, 0, 0, info.allow_type, 0), 0)

\* unshare_if_shared that leaves the `shared` field set.
Mut_unshare_if_shared(sys, sh) ==
    IF is_some(sh)
    THEN [out |-> full_dynamic_unshare(sys, unwrap(sh)), shared |-> sh]
    ELSE [out |-> Outcome(sys, 0), shared |-> sh]

\* unshare_if_shared: the outcome and the new value of the `shared` field.
unshare_if_shared(sys, sh) ==
    IF is_some(sh)
    THEN [out |-> full_dynamic_unshare(sys, unwrap(sh)), shared |-> None]
    ELSE [out |-> Outcome(sys, 0), shared |-> sh]

\* Buffer::allow without the check that the Buffer is not shared yet.
Mut_full_dynamic_allow(b, allow_type, driver_num, buffer_num, ans) ==
    /\ b \in FdBufs /\ live[b]
    /\ LET r == dynamic_allow(Start, driver_num, buffer_num, Addr(b),
                              size_of_val(b), allow_type, ans)
           res == IF r.variant = 2 THEN as_u32(r.r1) ELSE 0
       IN  /\ kernel' = r.kernel
           /\ shared' = IF res # 0 THEN shared
                        ELSE [shared EXCEPT ![b] =
                                Some([allow_type |-> allow_type,
                                      driver_num |-> driver_num,
                                      buffer_num |-> buffer_num])]
           /\ last' = Op("allow", b, "", <<allow_type, driver_num, buffer_num>>,
                         res, -1, r.calls)
    /\ UNCHANGED <<live, otherVars>>

\* Buffer::allow
full_dynamic_allow(b, allow_type, driver_num, buffer_num, ans) ==
    /\ b \in FdBufs /\ live[b]
    /\ UNCHANGED otherVars
    /\ IF is_some(shared[b])
       THEN /\ last' = Op("allow", b, "", <<allow_type, driver_num, buffer_num>>, AlreadyShared, -1, <<>>)
            /\ UNCHANGED <<live, shared, kernel>>
       ELSE LET r == dynamic_allow(Start, driver_num, buffer_num, Addr(b),
                                   size_of_val(b), allow_type, ans)
                res == IF r.variant = 2 THEN as_u32(r.r1) ELSE 0
            IN  /\ kernel' = r.kernel
                /\ shared' = IF res # 0 THEN shared
                             ELSE [shared EXCEPT ![b] =
                                     Some([allow_type |-> allow_type,
                                           driver_num |-> driver_num,
                                           buffer_num |-> buffer_num])]
                /\ last' = Op("allow", b, "", <<allow_type, driver_num, buffer_num>>, res, -1, r.calls)
                /\ UNCHANGED live

\* Buffer::buffer without the check of the `shared` field.
Mut_full_dynamic_buffer_ref(b) == Addr(b)

\* Buffer::buffer and Buffer::buffer_mut
full_dynamic_buffer_ref(b) == IF is_some(shared[b]) THEN 0 ELSE Addr(b)

full_dynamic_buffer(b) ==
    /\ b \in FdBufs /\ live[b]
    /\ UNCHANGED otherVars
    /\ last' = Op("buffer", b, "", <<>>, -1, full_dynamic_buffer_ref(b), <<>>)
    /\ UNCHANGED <<live, shared, kernel>>

full_dynamic_buffer_mut(b) ==
    /\ b \in FdBufs /\ live[b]
    /\ UNCHANGED otherVars
    /\ last' = Op("buffer_mut", b, "", <<>>, -1, full_dynamic_buffer_ref(b), <<>>)
    /\ UNCHANGED <<live, shared, kernel>>

\* Buffer::unallow
full_dynamic_unallow(b) ==
    /\ b \in FdBufs /\ live[b]
    /\ UNCHANGED otherVars
    /\ LET r == unshare_if_shared(Start, shared[b])
       IN  /\ kernel' = r.out.kernel
           /\ shared' = [shared EXCEPT ![b] = r.shared]
           /\ last' = Op("unallow", b, "", <<>>, -1, Addr(b), r.out.calls)
    /\ UNCHANGED live

\* impl Drop for Buffer
full_dynamic_drop(b) ==
    /\ b \in FdBufs /\ live[b]
    /\ UNCHANGED otherVars
    /\ LET r == unshare_if_shared(Start, shared[b])
       IN  /\ kernel' = r.out.kernel
           /\ shared' = [shared EXCEPT ![b] = r.shared]
           /\ last' = Op("drop", b, "", <<>>, -1, -1, r.out.calls)
    /\ live' = [live EXCEPT ![b] = FALSE]

\* StaticBuffer::allow.  The address passed is that of the temporary holding
\* the copy of buffer_ref, wherever the build places it.
StaticBuffer_allow(b, driver_num, buffer_num, tmp, ans) ==
    /\ b \in SbBufs /\ live[b]
    /\ UNCHANGED otherVars
    /\ IF is_some(shared[b])
       THEN /\ last' = Op("allow", b, "", <<Ro, driver_num, buffer_num>>, AlreadyShared, -1, <<>>)
            /\ UNCHANGED <<live, shared, kernel>>
       ELSE IF ~is_some(buffer_ref(b))
       THEN /\ last' = Op("allow", b, "", <<Ro, driver_num, buffer_num>>, NoBufferRef, -1, <<>>)
            /\ UNCHANGED <<live, shared, kernel>>
       ELSE LET r == dynamic_allow(Start, driver_num, buffer_num, tmp,
                                   size_of_val(b), Ro, ans)
                res == IF r.variant = 2 THEN as_u32(r.r1) ELSE 0
            IN  /\ kernel' = r.kernel
                /\ shared' = IF res # 0 THEN shared
                             ELSE [shared EXCEPT ![b] =
                                     Some([allow_type |-> Ro,
                                           driver_num |-> driver_num,
                                           buffer_num |-> buffer_num])]
                /\ last' = Op("allow", b, "", <<Ro, driver_num, buffer_num>>, res, -1, r.calls)
                /\ UNCHANGED live

\* StaticBuffer::buffer without the check of the `shared` field.
Mut_StaticBuffer_buffer_ref(b) ==
    IF is_some(buffer_ref(b)) THEN unwrap(buffer_ref(b)) ELSE 0

\* StaticBuffer::buffer
StaticBuffer_buffer_ref(b) ==
    IF is_some(shared[b]) THEN 0
    ELSE IF is_some(buffer_ref(b)) THEN unwrap(buffer_ref(b)) ELSE 0

StaticBuffer_buffer(b) ==
    /\ b \in SbBufs /\ live[b]
    /\ UNCHANGED otherVars
    /\ last' = Op("buffer", b, "", <<>>, -1, StaticBuffer_buffer_ref(b), <<>>)
    /\ UNCHANGED <<live, shared, kernel>>

\* StaticBuffer::unallow
StaticBuffer_unallow(b) ==
    /\ b \in SbBufs /\ live[b]
    /\ UNCHANGED otherVars
    /\ LET r == unshare_if_shared(Start, shared[b])
       IN  /\ kernel' = r.out.kernel
           /\ shared' = [shared EXCEPT ![b] = r.shared]
           /\ last' = Op("unallow", b, "", <<>>, -1,
                         IF is_some(buffer_ref(b)) THEN unwrap(buffer_ref(b)) ELSE 0,
                         r.out.calls)
    /\ UNCHANGED live

\* impl Drop for StaticBuffer
StaticBuffer_drop(b) ==
    /\ b \in SbBufs /\ live[b]
    /\ UNCHANGED otherVars
    /\ LET r == unshare_if_shared(Start, shared[b])
       IN  /\ kernel' = r.out.kernel
           /\ shared' = [shared EXCEPT ![b] = r.shared]
           /\ last' = Op("drop", b, "", <<>>, -1, -1, r.out.calls)
    /\ live' = [live EXCEPT ![b] = FALSE]

(***************************************************************************)
(* no_dynamic.rs: the Buffer has no field besides its storage; whether it  *)
(* is shared is known to the kernel only.                                  *)
(***************************************************************************)
\* P::CLASS of the Buffer's permission type: NA and NB are StaticRw, RA
\* and RB are StaticRo.
CLASS(b) == IF b \in NdRoBufs THEN Ro ELSE Rw

\* static_allow::<P>: the Allow system call of class P::CLASS.
static_allow(sys, class, driver_num, allow_num, address, len, ans) ==
    dynamic_allow(sys, driver_num, allow_num, address, len, class, ans)

no_dynamic_allow_inner(sys, class, driver_num, buffer_num, address, len, ans) ==
    LET r == static_allow(sys, class, driver_num, buffer_num, address, len, ans)
    IN  IF r.variant = 2 THEN Outcome(r, as_u32(r.r1)) ELSE Outcome(r, 0)

no_dynamic_unshare(sys, class, driver_num, buffer_num) ==
    Outcome(static_allow(sys, class, driver_num, buffer_num, 0, 0, 0), 0)

\* Buffer::allow, as called on Buffer b from the system state sys.
no_dynamic_allow_call(sys, b, ans) ==
    no_dynamic_allow_inner(sys, CLASS(b), DRIVER_NUM(b), BUFFER_NUM(b), Addr(b),
                           size_of_val(b), ans)

\* Buffer::allow
no_dynamic_allow(b, ans) ==
    /\ b \in NoDynamicBufs /\ live[b]
    /\ LET r == no_dynamic_allow_call(Start, b, ans)
       IN  /\ kernel' = r.kernel
           /\ last' = Op("allow", b, "", <<CLASS(b), DRIVER_NUM(b), BUFFER_NUM(b)>>,
                         r.res, -1, r.calls)
    /\ UNCHANGED <<live, shared, mem>>

\* Buffer<StaticRo, ..>::allow_ro
no_dynamic_allow_ro(b, ans) ==
    /\ b \in NdRoBufs /\ live[b]
    /\ LET r == no_dynamic_allow_inner(Start, Ro, DRIVER_NUM(b), BUFFER_NUM(b),
                                        Addr(b), size_of_val(b), ans)
       IN  /\ kernel' = r.kernel
           /\ last' = Op("allow_ro", b, "", <<Ro, DRIVER_NUM(b), BUFFER_NUM(b)>>,
                         r.res, -1, r.calls)
    /\ UNCHANGED <<live, shared, otherVars>>

\* Buffer<StaticRo, ..>::buffer: no system call.
no_dynamic_buffer_ro(b) ==
    /\ b \in NdRoBufs /\ live[b]
    /\ last' = Op("buffer", b, "", <<>>, -1, Addr(b), <<>>)
    /\ UNCHANGED <<live, shared, kernel, otherVars>>

\* Buffer<StaticRo, ..>::replace_with_ro.  self and new are both shared
\* references, so that new may be the receiver itself.
no_dynamic_replace_with_ro(b, new, ans) ==
    /\ b \in NdRoBufs /\ new \in NdRoBufs
    /\ live[b] /\ live[new]
    /\ DRIVER_NUM(b) = DRIVER_NUM(new) /\ BUFFER_NUM(b) = BUFFER_NUM(new)
    /\ LET r == no_dynamic_allow_inner(Start, Ro, DRIVER_NUM(new), BUFFER_NUM(new),
                                        Addr(new), size_of_val(new), ans)
       IN  /\ kernel' = r.kernel
           /\ last' = Op("replace_with_ro", b, new, <<>>, r.res, Addr(b), r.calls)
    /\ UNCHANGED <<live, shared, otherVars>>

\* Buffer<StaticRo, ..>::replace_with_mut_ro
no_dynamic_replace_with_mut_ro(b, new, ans) ==
    /\ b \in NdRoBufs /\ new \in NdRoBufs /\ b # new
    /\ live[b] /\ live[new]
    /\ DRIVER_NUM(b) = DRIVER_NUM(new) /\ BUFFER_NUM(b) = BUFFER_NUM(new)
    /\ LET r == no_dynamic_allow_inner(Start, Ro, DRIVER_NUM(new), BUFFER_NUM(new),
                                        Addr(new), size_of_val(new), ans)
       IN  /\ kernel' = r.kernel
           /\ last' = Op("replace_with_mut_ro", b, new, <<>>, r.res, Addr(b), r.calls)
    /\ UNCHANGED <<live, shared, otherVars>>

\* Buffer<StaticRw, ..>::buffer
no_dynamic_buffer(b) ==
    /\ b \in NoDynamicBufs /\ live[b] /\ CLASS(b) = Rw
    /\ LET r == no_dynamic_unshare(Start, Rw, DRIVER_NUM(b), BUFFER_NUM(b))
       IN  /\ kernel' = r.kernel
           /\ last' = Op("buffer", b, "", <<>>, -1, Addr(b), r.calls)
    /\ UNCHANGED <<live, shared, otherVars>>

\* Buffer::buffer_mut
no_dynamic_buffer_mut(b) ==
    /\ b \in NoDynamicBufs /\ live[b]
    /\ LET r == no_dynamic_unshare(Start, CLASS(b), DRIVER_NUM(b), BUFFER_NUM(b))
       IN  /\ kernel' = r.kernel
           /\ last' = Op("buffer_mut", b, "", <<>>, -1, Addr(b), r.calls)
    /\ UNCHANGED <<live, shared, otherVars>>

\* Buffer::replace_with
no_dynamic_replace_with(b, new, ans) ==
    /\ b \in NoDynamicBufs /\ new \in NoDynamicBufs /\ b # new
    /\ live[b] /\ live[new]
    /\ CLASS(b) = CLASS(new)
    /\ DRIVER_NUM(b) = DRIVER_NUM(new) /\ BUFFER_NUM(b) = BUFFER_NUM(new)
    /\ LET r == no_dynamic_allow_call(Start, new, ans)
       IN  /\ kernel' = r.kernel
           /\ last' = Op("replace_with", b, new, <<>>, r.res, Addr(b), r.calls)
    /\ UNCHANGED <<live, shared, otherVars>>

\* Buffer::replace_with_mut that returns the storage of `new`.
Mut_no_dynamic_replace_with_mut(b, new, ans) ==
    /\ b \in NoDynamicBufs /\ new \in NoDynamicBufs /\ b # new
    /\ live[b] /\ live[new]
    /\ CLASS(b) = CLASS(new)
    /\ LET r == no_dynamic_allow_call(Start, new, ans)
       IN  /\ kernel' = r.kernel
           /\ last' = Op("replace_with_mut", b, new, <<>>, r.res, Addr(new), r.calls)
    /\ UNCHANGED <<live, shared, mem>>

\* Buffer::replace_with_mut
no_dynamic_replace_with_mut(b, new, ans) ==
    /\ b \in NoDynamicBufs /\ new \in NoDynamicBufs /\ b # new
    /\ live[b] /\ live[new]
    /\ CLASS(b) = CLASS(new)
    /\ DRIVER_NUM(b) = DRIVER_NUM(new) /\ BUFFER_NUM(b) = BUFFER_NUM(new)
    /\ LET r == no_dynamic_allow_call(Start, new, ans)
       IN  /\ kernel' = r.kernel
           /\ last' = Op("replace_with_mut", b, new, <<>>, r.res, Addr(b), r.calls)
    /\ UNCHANGED <<live, shared, mem>>

\* impl Drop for Buffer
no_dynamic_drop(b) ==
    /\ b \in NoDynamicBufs /\ live[b]
    /\ LET r == no_dynamic_unshare(Start, CLASS(b), DRIVER_NUM(b), BUFFER_NUM(b))
       IN  /\ kernel' = r.kernel
           /\ last' = Op("drop", b, "", <<>>, -1, -1, r.calls)
    /\ live' = [live EXCEPT ![b] = FALSE]
    /\ UNCHANGED <<shared, otherVars>>

(***************************************************************************)
(* The kernel's side of a read-write Allow: after the command that starts  *)
(* the driver, the kernel writes into the storage that is registered.      *)
(***************************************************************************)
kernel_write(b, v) ==
    /\ b \in AllBufs /\ live[b]
    /\ \E s \in DOMAIN kernel : s[2] = Rw /\ kernel[s].addr = Addr(b)
    /\ mem' = [mem EXCEPT ![b] = v]
    /\ last' = Op("kernel_write", b, "", <<>>, -1, -1, <<>>)
    /\ UNCHANGED <<live, shared, kernel, streamVars>>

(***************************************************************************)
(* zst_pointer_async/lw/rng.rs and lw/console.rs: the lightweight Rng and  *)
(* Console drivers.  A request hands a &'static mut [u8] to the kernel;    *)
(* the kernel's upcall runs the callback, which hands it to the client.    *)
(* The system calls (crate::syscalls) return what the kernel answers.      *)
(***************************************************************************)
LwDrivers == {"rng", "console"}

\* DRIVER_NUM, BUFFER_NUM / WRITE_BUFFER, GET_BYTES / WRITE and
\* GET_BYTES_DONE / WRITE_COMPLETE of the two drivers.
lw_DRIVER_NUM(d) == IF d = "rng" THEN 262145 ELSE 1
lw_BUFFER_NUM(d) == IF d = "rng" THEN 0 ELSE 1
lw_COMMAND_NUM(d) == 1
lw_SUBSCRIBE_NUM(d) == IF d = "rng" THEN 0 ELSE 1

\* The kernel's return codes (lw/returncode.rs).
FAIL == -1
EBUSY == -2
ENOMEM == -9
ENODEVICE == -11

\* The answers of the kernel to subscribe, and to allow and command.
SubscribeAnswers == {0, FAIL, ENOMEM, ENODEVICE}
CallAnswers == {0, FAIL}

\* The buffers of the client: their addresses and lengths.
LwBufs == {"X", "Y"}
as_mut_ptr(b) == IF b = "X" THEN 100 ELSE 200
len(b) == IF b = "X" THEN 4 ELSE 8

\* The slice core::slice::from_raw_parts_mut(data, len) denotes.
from_raw_parts_mut(data, length) == [data |-> data, len |-> length]

\* The buffer the slice is, if it is one of the client's.
BufferAt(slice) ==
    {b \in LwBufs : as_mut_ptr(b) = slice.data /\ len(b) = slice.len}

\* A system call and the kernel's answer, for the log of the operation.
Syscall(name, d, num, a1, a2, ans) ==
    [call |-> name, driver_num |-> lw_DRIVER_NUM(d), num |-> num, a1 |-> a1,
     a2 |-> a2, ans |-> ans]

\* The error of fetch() / write() for a subscribe that returned rs # 0.
SubscribeError(d, rs) ==
    IF d = "rng"
    THEN (IF rs = -11 THEN ENODEVICE ELSE FAIL)
    ELSE (IF rs = ENOMEM THEN ENOMEM ELSE IF rs = ENODEVICE THEN ENODEVICE ELSE FAIL)

\* A request is refused while the driver stores a buffer: never.
Mut_Busy(d) == FALSE

\* `!self.buffer_data.get().is_null()`
Busy(d) == buffer_data[d] # 0

\* Rng::fetch and Console::write.  rs, ra, rc, ru are the kernel's answers
\* to subscribe, allow, command and the un-allow after a failed command.
Request(op, d, b, rs, ra, rc, ru) ==
    LET sub == Syscall("subscribe", d, lw_SUBSCRIBE_NUM(d), "callback", d, rs)
        alw == Syscall("allow", d, lw_BUFFER_NUM(d), as_mut_ptr(b), len(b), ra)
        cmd == Syscall("command", d, lw_COMMAND_NUM(d), len(b), 0, rc)
        unl == Syscall("allow", d, lw_BUFFER_NUM(d), 0, 0, ru)
    IN  /\ d \in LwDrivers /\ b \in LwBufs /\ owner[b] = "client"
        /\ delivered' = <<>>
        /\ UNCHANGED <<poisoned, notLwVars>>
        /\ IF Busy(d)
           THEN /\ last' = Op(op, d, b, <<>>, EBUSY, as_mut_ptr(b), <<>>)
                /\ UNCHANGED <<buffer_data, buffer_len, pending, allowed, owner>>
           ELSE IF rs # 0
           THEN /\ last' = Op(op, d, b, <<>>, SubscribeError(d, rs), as_mut_ptr(b), <<sub>>)
                /\ UNCHANGED <<buffer_data, buffer_len, pending, allowed, owner>>
           ELSE IF ra # 0
           THEN /\ last' = Op(op, d, b, <<>>, FAIL, as_mut_ptr(b), <<sub, alw>>)
                /\ UNCHANGED <<buffer_data, buffer_len, pending, allowed, owner>>
           ELSE IF rc # 0
           THEN IF ru = 0
                THEN /\ last' = Op(op, d, b, <<>>, FAIL, as_mut_ptr(b), <<sub, alw, cmd, unl>>)
                     /\ allowed' = [allowed EXCEPT ![d] = 0]
                     /\ UNCHANGED <<buffer_data, buffer_len, pending, owner>>
                ELSE /\ last' = Op(op, d, b, <<>>, FAIL, 0, <<sub, alw, cmd, unl>>)
                     /\ allowed' = [allowed EXCEPT ![d] = as_mut_ptr(b)]
                     /\ owner' = [owner EXCEPT ![b] = "kernel"]
                     /\ UNCHANGED <<buffer_data, buffer_len, pending>>
           ELSE /\ last' = Op(op, d, b, <<>>, 0, -1, <<sub, alw, cmd>>)
                /\ buffer_data' = [buffer_data EXCEPT ![d] = as_mut_ptr(b)]
                /\ buffer_len' = [buffer_len EXCEPT ![d] = len(b)]
                /\ allowed' = [allowed EXCEPT ![d] = as_mut_ptr(b)]
                /\ pending' = [pending EXCEPT ![d] = TRUE]
                /\ owner' = [owner EXCEPT ![b] = d]

\* A fetch that gives up after a failed command without the un-allow.
Mut_Rng_fetch(b, rs, ra, rc, ru) ==
    /\ rs = 0 /\ ra = 0 /\ rc \in CallAnswers \ {0} /\ ru \in CallAnswers
    /\ b \in LwBufs /\ owner[b] = "client" /\ ~Busy("rng")
    /\ last' = Op("fetch", "rng", b, <<>>, FAIL, as_mut_ptr(b),
                  << Syscall("subscribe", "rng", lw_SUBSCRIBE_NUM("rng"), "callback", "rng", rs),
                     Syscall("allow", "rng", lw_BUFFER_NUM("rng"), as_mut_ptr(b), len(b), ra),
                     Syscall("command", "rng", lw_COMMAND_NUM("rng"), len(b), 0, rc) >>)
    /\ allowed' = [allowed EXCEPT !["rng"] = as_mut_ptr(b)]
    /\ delivered' = <<>>
    /\ UNCHANGED <<buffer_data, buffer_len, pending, owner, poisoned, notLwVars>>
    /\ UNCHANGED rngVars

\* Rng::fetch
Rng_fetch(b, rs, ra, rc, ru) ==
    /\ rs \in SubscribeAnswers /\ {ra, rc, ru} \subseteq CallAnswers
    /\ Request("fetch", "rng", b, rs, ra, rc, ru)
    /\ UNCHANGED rngVars

\* Console::write
Console_write(b, rs, ra, rc, ru) ==
    /\ rs \in SubscribeAnswers /\ {ra, rc, ru} \subseteq CallAnswers
    /\ Request("write", "console", b, rs, ra, rc, ru)
    /\ UNCHANGED rngVars

\* callback of rng.rs and of console.rs, run by the upcall of the kernel.
\* ru is the kernel's answer to the un-allow.  After invoke_callback(None)
\* the function goes on to the second invoke_callback.
Callback(d, ru) ==
    LET unl == Syscall("allow", d, lw_BUFFER_NUM(d), 0, 0, ru)
        slice == from_raw_parts_mut(buffer_data[d], buffer_len[d])
    IN  /\ d \in LwDrivers /\ pending[d]
        /\ pending' = [pending EXCEPT ![d] = FALSE]
        /\ allowed' = IF ru = 0 THEN [allowed EXCEPT ![d] = 0] ELSE allowed
        /\ delivered' = IF ru # 0 THEN <<None, Some(slice)>> ELSE <<Some(slice)>>
        /\ buffer_data' = [buffer_data EXCEPT ![d] = 0]
        /\ owner' = [b \in LwBufs |-> IF b \in BufferAt(slice) THEN "client" ELSE owner[b]]
        /\ poisoned' = [poisoned EXCEPT ![d] = poisoned[d] \/ ru # 0]
        /\ last' = Op("callback", d, "", <<>>, -1, -1, <<unl>>)
        /\ UNCHANGED <<buffer_len, notLwVars>>

Rng_callback(ru) ==
    /\ ru \in CallAnswers
    /\ Callback("rng", ru)
    /\ UNCHANGED rngVars

Console_callback(ru) ==
    /\ ru \in CallAnswers
    /\ Callback("console", ru)
    /\ UNCHANGED rngVars

LwInit ==
    /\ buffer_data = [d \in LwDrivers |-> 0]
    /\ buffer_len = [d \in LwDrivers |-> 0]
    /\ pending = [d \in LwDrivers |-> FALSE]
    /\ allowed = [d \in LwDrivers |-> 0]
    /\ owner = [b \in LwBufs |-> "client"]
    /\ delivered = <<>>
    /\ poisoned = [d \in LwDrivers |-> FALSE]

(***************************************************************************)
(* zst_pointer_async/lw/async_util.rs: StaticMutCell.  The client holds    *)
(* the references the cells handed out; unborrow consumes the reference    *)
(* it is given.                                                            *)
(***************************************************************************)
Cells == {"c1", "c2", "c3"}

\* The references a cell may have handed out that are still live.
MaxRefs == 2

\* self.value.get(): the address of the value of cell c.
value_get(c) == IF c = "c1" THEN 300 ELSE IF c = "c2" THEN 400 ELSE 500

\* StaticMutCell::get
StaticMutCell_get(c) ==
    /\ c \in Cells /\ refs[c] < MaxRefs
    /\ IF borrowed[c]
       THEN /\ last' = Op("get", c, "", <<>>, -1, 0, <<>>)
            /\ UNCHANGED <<borrowed, refs>>
       ELSE /\ borrowed' = [borrowed EXCEPT ![c] = TRUE]
            /\ refs' = [refs EXCEPT ![c] = @ + 1]
            /\ last' = Op("get", c, "", <<>>, -1, value_get(c), <<>>)
    /\ UNCHANGED notCellVars

\* StaticMutCell::unborrow that does not compare the pointers.
Mut_StaticMutCell_unborrow(c, r) ==
    /\ c \in Cells /\ r \in Cells /\ refs[r] > 0
    /\ refs' = [refs EXCEPT ![r] = @ - 1]
    /\ borrowed' = [borrowed EXCEPT ![c] = FALSE]
    /\ last' = Op("unborrow", c, r, <<>>, -1, -1, <<>>)
    /\ UNCHANGED notCellVars

\* StaticMutCell::unborrow, given a reference to the value of cell r.
StaticMutCell_unborrow(c, r) ==
    /\ c \in Cells /\ r \in Cells /\ refs[r] > 0
    /\ refs' = [refs EXCEPT ![r] = @ - 1]
    /\ borrowed' = IF value_get(c) = value_get(r)
                   THEN [borrowed EXCEPT ![c] = FALSE] ELSE borrowed
    /\ last' = Op("unborrow", c, r, <<>>, -1, -1, <<>>)
    /\ UNCHANGED notCellVars

CellInit ==
    /\ borrowed = [c \in Cells |-> FALSE]
    /\ refs = [c \in Cells |-> 0]

(***************************************************************************)
(* size_comparison/futures/src/task.rs: Task.  A Task is the record of its *)
(* fields; nested are the results of the spawn() calls the future made     *)
(* from inside its poll().  What the future does in its polls is a script: *)
(* for each poll, whether it returns Ready, whether it wakes its waker and *)
(* whether it calls spawn() on its own Task.                               *)
(***************************************************************************)
Futures == {"f1", "f2"}

\* The longest script of polls.
MaxScript == 2

PollSteps == [ready : BOOLEAN, woke : BOOLEAN, respawn : BOOLEAN]

Scripts == UNION {[1..n -> PollSteps] : n \in 0..MaxScript}

\* Err(CurrentlyPolling), where Ok(()) is 0.
CurrentlyPolling == 1

RECURSIVE poll_loop(_, _)
RECURSIVE poll_future(_, _, _)
RECURSIVE spawn(_, _, _, _)

\* The loop of poll_future, entered with the RefCell borrowed by it.
poll_loop(t, script) ==
    IF t.future = None THEN t
    ELSE LET step == IF script = <<>>
                     THEN [ready |-> FALSE, woke |-> FALSE, respawn |-> FALSE]
                     ELSE Head(script)
             rest == IF script = <<>> THEN <<>> ELSE Tail(script)
             t1 == [t EXCEPT !.pending_poll = FALSE, !.polls = @ + 1]
             \* inside poll(): the future may call spawn() and wake its waker
             t2 == IF step.respawn
                   THEN LET r == spawn(t1, TRUE, unwrap(t1.future), <<>>)
                        IN  [r.t EXCEPT !.nested = Append(@, r.res)]
                   ELSE t1
             t3 == IF step.woke THEN poll_future(t2, TRUE, <<>>) ELSE t2
             t4 == IF step.ready THEN [t3 EXCEPT !.pending_poll = FALSE] ELSE t3
         IN  IF ~t4.pending_poll THEN t4 ELSE poll_loop(t4, rest)

\* Task::poll_future that drops a wake made while the RefCell is borrowed.
Mut_poll_future(t, busy, script) ==
    IF busy THEN t
    ELSE poll_loop(t, script)

\* Task::poll_future; busy says that the RefCell `future` is borrowed.
poll_future(t, busy, script) ==
    IF busy THEN [t EXCEPT !.pending_poll = TRUE]
    ELSE poll_loop(t, script)

\* Task::spawn that releases its borrow before it calls poll_future.
Mut_spawn(t, busy, f, script) ==
    IF busy THEN [t |-> t, res |-> CurrentlyPolling]
    ELSE [t |-> poll_future([t EXCEPT !.future = Some(f), !.polls = 0], FALSE, script),
          res |-> 0]

\* Task::spawn.  The RefMut `borrow` lives to the end of spawn, so the
\* RefCell is borrowed while poll_future runs.
spawn(t, busy, f, script) ==
    IF busy THEN [t |-> t, res |-> CurrentlyPolling]
    ELSE [t |-> poll_future([t EXCEPT !.future = Some(f), !.polls = 0], TRUE, script),
          res |-> 0]

\* Task::spawn called by the program, outside of any poll.
Task_spawn(f, script) ==
    /\ f \in Futures /\ script \in Scripts
    /\ LET r == spawn([future |-> future, pending_poll |-> pending_poll,
                       polls |-> polls, nested |-> <<>>], FALSE, f, script)
       IN  /\ future' = r.t.future
           /\ pending_poll' = r.t.pending_poll
           /\ polls' = r.t.polls
           /\ last' = Op("spawn", f, "", <<script, r.t.nested>>, r.res, -1, <<>>)
    /\ UNCHANGED notTaskVars

\* The polls of one future the model follows.
MaxPolls == 3

\* Task::waker_wake, called through a Waker of the Task while no poll of
\* the Task is running.
Task_waker_wake(script) ==
    /\ script \in Scripts /\ polls < MaxPolls
    /\ LET t == poll_future([future |-> future, pending_poll |-> pending_poll,
                             polls |-> polls, nested |-> <<>>], FALSE, script)
       IN  /\ future' = t.future
           /\ pending_poll' = t.pending_poll
           /\ polls' = t.polls
           /\ last' = Op("wake", "", "", <<script, t.nested>>, -1, -1, <<>>)
    /\ UNCHANGED notTaskVars

\* Task::new
TaskInit ==
    /\ future = None
    /\ pending_poll = FALSE
    /\ polls = 0

(***************************************************************************)
(* RngFuture (zst_pointer_async/futures/rng.rs).  Its static RNG is the    *)
(* driver "rng"; the forwarder of that driver is RngForwarder, which       *)
(* writes the static STATE (rng_STATE).                                    *)
(***************************************************************************)
\* enum State
State_Idle == <<"Idle">>
State_Busy == <<"Busy">>
State_LostBuffer == <<"LostBuffer">>
State_Done(buffer) == <<"Done", buffer>>

\* The client's buffers the state holds.
BuffersOf(state) == IF state[1] = "Done" THEN BufferAt(state[2]) ELSE {}

\* The StartError RngFuture::new makes of the FetchError of Rng::fetch.
StartError(fetch_error) ==
    IF fetch_error = FAIL THEN FAIL
    ELSE IF fetch_error = EBUSY THEN EBUSY
    ELSE ENODEVICE

\* What an operation on RngFuture returned: res is "Ok", "Err", "Pending",
\* "ReadyOk" or "ReadyErr"; code is the StartError of an "Err".
Ret(op, res, code, buffer) == [op |-> op, res |-> res, code |-> code, buffer |-> buffer]

\* RngFuture::new
RngFuture_new(b, rs, ra, rc, ru) ==
    /\ rs \in SubscribeAnswers /\ {ra, rc, ru} \subseteq CallAnswers
    /\ b \in LwBufs /\ owner[b] = "client" /\ b \notin dropped \cup BuffersOf(rng_STATE)
    /\ IF rng_STATE # State_Idle
       THEN /\ ret' = Ret("new", "Err", EBUSY, None)
            /\ dropped' = dropped \cup {b}
            /\ last' = Op("new", "rng", b, <<>>, EBUSY, -1, <<>>)
            /\ UNCHANGED <<rng_STATE, made, lwVars, notLwVars>>
       ELSE /\ Request("fetch", "rng", b, rs, ra, rc, ru)
            /\ rng_STATE' = IF last'.res = 0 THEN State_Busy ELSE State_Idle
            /\ ret' = IF last'.res = 0 THEN Ret("new", "Ok", 0, None)
                      ELSE Ret("new", "Err", StartError(last'.res), None)
            /\ made' = (made \/ last'.res = 0)
            /\ dropped' = IF last'.res # 0 /\ last'.ref = as_mut_ptr(b)
                          THEN dropped \cup {b} ELSE dropped

\* <RngFuture as Future>::poll; rng_STATE.take() leaves State::Idle.
RngFuture_poll ==
    /\ made
    /\ IF rng_STATE \in {State_Idle, State_LostBuffer}
       THEN rng_STATE' = State_Idle /\ ret' = Ret("poll", "ReadyErr", 0, None)
       ELSE IF rng_STATE = State_Busy
       THEN rng_STATE' = State_Busy /\ ret' = Ret("poll", "Pending", 0, None)
       ELSE rng_STATE' = State_Idle /\ ret' = Ret("poll", "ReadyOk", 0, Some(rng_STATE[2]))
    /\ last' = Op("poll", "rng", "", <<>>, -1, -1, <<>>)
    /\ UNCHANGED <<made, dropped, lwVars, notLwVars>>

\* RngForwarder::invoke_callback
invoke_callback(response) ==
    IF response # None THEN State_Done(response[1]) ELSE State_LostBuffer

RECURSIVE Forward(_, _)
\* The rng_STATE after the invocations of the forwarder, in their order.
Forward(state, responses) ==
    IF responses = <<>> THEN state
    ELSE Forward(invoke_callback(Head(responses)), Tail(responses))

\* The callback of the Rng driver, run by the upcall, with RngForwarder.
RngFuture_callback(ru) ==
    /\ ru \in CallAnswers
    /\ Callback("rng", ru)
    /\ rng_STATE' = Forward(rng_STATE, delivered')
    /\ ret' = Ret("callback", "", 0, None)
    /\ UNCHANGED <<made, dropped>>

\* rng_STATE is State::default(); no RngFuture exists.
RngFutureInit ==
    /\ rng_STATE = State_Idle
    /\ made = FALSE
    /\ dropped = {}
    /\ ret = Ret("", "", 0, None)

(***************************************************************************)
(* ButtonFuture (zst_pointer_async/futures/button.rs) over the button      *)
(* driver (zst_pointer_async/lw/button.rs).                                *)
(***************************************************************************)
Buttons == {"b1", "b2"}
Indexes == {0, 1}

\* lw/button.rs
Button_DRIVER_NUM == 3
ENABLE_INTERRUPT == 1
BUTTON_EVENT == 0

\* Return codes of the kernel (lw/returncode.rs).
result_SUCCESS == 0
EINVAL == -6

\* The answers of the kernel to subscribe and command of the button driver.
ButtonAnswers == {result_SUCCESS, FAIL, EBUSY, EINVAL, ENOMEM, ENODEVICE}

\* struct Event
Event(index, new_value) == [index |-> index, new_value |-> new_value]

\* enum ButtonState
ButtonState_Uninitialized == <<"Uninitialized">>
ButtonState_Idle == <<"Idle">>
ButtonState_WaitingFor(event) == <<"WaitingFor", event>>
ButtonState_Fired == <<"Fired">>

\* Driver::enable_interrupt: the system calls made and the InterruptError
\* (0 for Ok(())).
enable_interrupt(index, rs, rc) ==
    LET sub == [call |-> "subscribe", driver_num |-> Button_DRIVER_NUM,
                num |-> BUTTON_EVENT, ans |-> rs]
        cmd == [call |-> "command", driver_num |-> Button_DRIVER_NUM,
                num |-> ENABLE_INTERRUPT, a1 |-> index, ans |-> rc]
        result == IF rs = result_SUCCESS THEN rc ELSE rs
    IN  [calls |-> IF rs = result_SUCCESS THEN <<sub, cmd>> ELSE <<sub>>,
         res |-> IF result \in {result_SUCCESS, ENOMEM, EINVAL, ENODEVICE}
                 THEN result ELSE FAIL]

\* TryFrom<isize> for the StartError of futures/button.rs, unwrap_or(FAIL).
Button_StartError(ie) ==
    IF ie \in {FAIL, EBUSY, ENOMEM, EINVAL, ENODEVICE} THEN ie ELSE FAIL

\* What an operation on ButtonFuture did and returned: res is "Ok", "Err",
\* "Pending" or "Ready"; code is the StartError of an "Err".
ButtonRet(op, button, event, res, code, calls) ==
    [op |-> op, button |-> button, event |-> event, res |-> res, code |-> code,
     calls |-> calls]

\* ButtonFuture::new
ButtonFuture_new(button, index, new_value, rs, rc) ==
    LET uninitialized == button_state[button] = ButtonState_Uninitialized
        in_use == ~uninitialized /\ button_state[button] # ButtonState_Idle
        e == enable_interrupt(index, rs, rc)
        event == Event(index, new_value)
    IN  /\ button \in Buttons /\ index \in Indexes /\ new_value \in BOOLEAN
        /\ {rs, rc} \subseteq ButtonAnswers
        /\ ~hung
        /\ BUTTON_LIST' = IF uninitialized THEN Some(button) ELSE BUTTON_LIST
        /\ button_next' = IF uninitialized
                          THEN [button_next EXCEPT ![button] = BUTTON_LIST]
                          ELSE button_next
        /\ IF in_use
           THEN /\ bret' = ButtonRet("new", button, event, "Err", EBUSY, <<>>)
                /\ UNCHANGED <<button_state, subscribed, button_futures>>
           ELSE /\ subscribed' = (subscribed \/ rs = result_SUCCESS)
                /\ IF e.res # result_SUCCESS
                   THEN /\ bret' = ButtonRet("new", button, event, "Err",
                                             Button_StartError(e.res), e.calls)
                        /\ UNCHANGED <<button_state, button_futures>>
                   ELSE /\ button_state' = [button_state EXCEPT ![button] =
                                                ButtonState_WaitingFor(event)]
                        /\ button_futures' = button_futures \cup {button}
                        /\ bret' = ButtonRet("new", button, event, "Ok", 0, e.calls)
        /\ last' = Op("new", button, "", <<index, new_value>>, bret'.code, -1, <<>>)
        /\ UNCHANGED <<hung, notButtonVars>>

\* <ButtonFuture as Future>::poll, of a ButtonFuture new has returned.
ButtonFuture_poll(button) ==
    /\ button \in button_futures
    /\ ~hung
    /\ bret' = ButtonRet("poll", button, Event(0, FALSE),
                         IF button_state[button][1] = "WaitingFor"
                         THEN "Pending" ELSE "Ready", 0, <<>>)
    /\ last' = Op("poll", button, "", <<>>, -1, -1, <<>>)
    /\ UNCHANGED <<BUTTON_LIST, button_next, button_state, subscribed,
                   button_futures, hung, notButtonVars>>

RECURSIVE Walk(_, _, _, _)
\* The loop of FutureForwarder::invoke_callback from opt_button on, over
\* the states st; seen are the Buttons the loop has been at.  The `next`
\* fields do not change in the loop and a Button the loop comes to again
\* is not WaitingFor an event other than the response, so that a loop
\* that comes to a Button again does not end.
Walk(opt_button, st, seen, response) ==
    IF opt_button = None THEN [state |-> st, ends |-> TRUE]
    ELSE LET button == opt_button[1]
         IN  IF button \in seen THEN [state |-> st, ends |-> FALSE]
             ELSE IF st[button][1] = "WaitingFor"
             THEN IF st[button][2] # response
                  THEN [state |-> st, ends |-> TRUE]
                  ELSE Walk(button_next[button],
                            [st EXCEPT ![button] = ButtonState_Fired],
                            seen \cup {button}, response)
             ELSE Walk(button_next[button], st, seen \cup {button}, response)

\* FutureForwarder::invoke_callback
Button_invoke_callback(response) ==
    Walk(BUTTON_LIST, button_state, {}, response)

\* callback of lw/button.rs, run by the upcall of the kernel.
Button_callback(index, pressed) ==
    /\ index \in Indexes /\ pressed \in {0, 1, 2}
    /\ subscribed /\ ~hung
    /\ IF pressed \notin {0, 1}
       THEN /\ bret' = ButtonRet("callback", "", Event(index, FALSE), "", 0, <<>>)
            /\ UNCHANGED <<button_state, hung>>
       ELSE LET w == Button_invoke_callback(Event(index, pressed = 1))
            IN  /\ button_state' = w.state
                /\ hung' = ~w.ends
                /\ bret' = ButtonRet("callback", "", Event(index, pressed = 1),
                                     "Event", 0, <<>>)
    /\ last' = Op("callback", "button", "", <<index, pressed>>, -1, -1, <<>>)
    /\ UNCHANGED <<BUTTON_LIST, button_next, subscribed, button_futures,
                   notButtonVars>>

\* Button::new for every Button; BUTTON_LIST is empty.
ButtonInit ==
    /\ BUTTON_LIST = None
    /\ button_next = [b \in Buttons |-> None]
    /\ button_state = [b \in Buttons |-> ButtonState_Uninitialized]
    /\ subscribed = FALSE
    /\ button_futures = {}
    /\ hung = FALSE
    /\ bret = ButtonRet("", "", Event(0, FALSE), "", 0, <<>>)

AsyncInit == LwInit /\ CellInit /\ TaskInit /\ RngFutureInit /\ ButtonInit

\* No operation has been called yet.
NoOp == [op |-> "new", self |-> "", other |-> "", args |-> <<>>, res |-> -1,
         ref |-> -1, calls |-> <<>>, repeat |-> FALSE, saved |-> -1]

Init ==
    /\ live \in {[b \in AllBufs |-> b \in P] : P \in Programs}
    /\ shared = [b \in AllBufs |-> None]
    /\ kernel = [s \in Ids \X DynamicType |-> NullReg]
    /\ last = NoOp
    /\ mem = [b \in AllBufs |-> 0]
    /\ share_status = "None"
    /\ advances = -1
    /\ started = FALSE
    /\ AsyncInit

Next ==
    \/ /\ \E b \in DtBufs, t \in DynamicType, ans \in Answers : dynamic_type_allow(b, t, ans)
       /\ UNCHANGED streamVars
    \/ \E b \in DtBufs : dynamic_type_buffer(b)
    \/ \E b \in DtBufs : dynamic_type_buffer_mut(b)
    \/ \E b \in DtBufs : dynamic_type_unallow(b)
    \/ /\ \E b \in DtBufs, other \in DtBufs, ans \in Answers :
             dynamic_type_replace_with(b, other, ans)
       /\ UNCHANGED streamVars
    \/ \E b \in DtBufs : dynamic_type_drop(b)
    \/ \E b \in FdBufs, t \in DynamicType, id \in Ids, ans \in Answers :
          full_dynamic_allow(b, t, id[1], id[2], ans)
    \/ \E b \in FdBufs : full_dynamic_buffer(b)
    \/ \E b \in FdBufs : full_dynamic_buffer_mut(b)
    \/ \E b \in FdBufs : full_dynamic_unallow(b)
    \/ \E b \in FdBufs : full_dynamic_drop(b)
    \/ \E b \in SbBufs, id \in Ids, tmp \in StackTemps, ans \in Answers :
          StaticBuffer_allow(b, id[1], id[2], tmp, ans)
    \/ \E b \in SbBufs : StaticBuffer_buffer(b)
    \/ \E b \in SbBufs : StaticBuffer_unallow(b)
    \/ \E b \in SbBufs : StaticBuffer_drop(b)

Spec == Init /\ [][Next]_vars

(***************************************************************************)
(* MemSpec: a program that works on two dynamic_type Buffers, on two       *)
(* no_dynamic StaticRw Buffers, on two no_dynamic StaticRo Buffers, or on  *)
(* a StaticRw and a StaticRo no_dynamic Buffer, of the same id, while the  *)
(* kernel writes into the storage it holds.                                *)
(***************************************************************************)
MemPrograms == {DtBufs, NdBufs, NdRoBufs, NdMixedBufs}

MemInit ==
    /\ live \in {[b \in AllBufs |-> b \in P] : P \in MemPrograms}
    /\ shared = [b \in AllBufs |-> None]
    /\ kernel = [s \in Ids \X DynamicType |-> NullReg]
    /\ last = NoOp
    /\ mem \in {[b \in AllBufs |-> IF b \in {"A", "NA"} THEN v ELSE 0] : v \in 0..MaxVal}
    /\ share_status = "None"
    /\ advances = -1
    /\ started = FALSE
    /\ AsyncInit

MemNext ==
    \/ /\ \E b \in DtBufs, t \in DynamicType, ans \in Answers : dynamic_type_allow(b, t, ans)
       /\ UNCHANGED streamVars
    \/ \E b \in DtBufs : dynamic_type_buffer(b)
    \/ \E b \in DtBufs : dynamic_type_buffer_mut(b)
    \/ \E b \in DtBufs : dynamic_type_unallow(b)
    \/ /\ \E b \in DtBufs, other \in DtBufs, ans \in Answers :
             dynamic_type_replace_with(b, other, ans)
       /\ UNCHANGED streamVars
    \/ \E b \in DtBufs : dynamic_type_drop(b)
    \/ /\ \E b \in NoDynamicBufs, ans \in Answers : no_dynamic_allow(b, ans)
       /\ UNCHANGED streamVars
    \/ \E b \in NdRoBufs, ans \in Answers : no_dynamic_allow_ro(b, ans)
    \/ \E b \in NdBufs : no_dynamic_buffer(b)
    \/ \E b \in NdRoBufs : no_dynamic_buffer_ro(b)
    \/ \E b \in NoDynamicBufs : no_dynamic_buffer_mut(b)
    \/ \E b \in NoDynamicBufs, new \in NoDynamicBufs, ans \in Answers :
          no_dynamic_replace_with(b, new, ans)
    \/ /\ \E b \in NoDynamicBufs, new \in NoDynamicBufs, ans \in Answers :
             no_dynamic_replace_with_mut(b, new, ans)
       /\ UNCHANGED streamVars
    \/ \E b \in NdRoBufs, new \in NdRoBufs, ans \in Answers :
          no_dynamic_replace_with_ro(b, new, ans)
    \/ \E b \in NdRoBufs, new \in NdRoBufs, ans \in Answers :
          no_dynamic_replace_with_mut_ro(b, new, ans)
    \/ \E b \in NoDynamicBufs : no_dynamic_drop(b)
    \/ \E b \in AllBufs, v \in 0..MaxVal : kernel_write(b, v)

MemSpec == MemInit /\ [][MemNext]_vars

(***************************************************************************)
(* StreamingReceiveSlice (examples/swap_dynamic_type.rs and                *)
(* examples/swap_no_dynamic.rs): two Buffers of one id, buffer_a and       *)
(* buffer_b, of which one is lent to the kernel while the program reads    *)
(* the other.                                                              *)
(***************************************************************************)
\* Err(4) of next() on a stream that has not been started.
NotStreaming == 4

\* Every Allow of the last operation was accepted by the kernel.
Accepted(op) == \A i \in DOMAIN op.calls : op.calls[i].ans = 0

\* swap_dynamic_type.rs, StreamingReceiveSlice::start
swap_dynamic_type_start(ans) ==
    /\ UNCHANGED asyncVars
    /\ dynamic_type_allow("A", Rw, ans)
    /\ started' = (started \/ last'.res = 0)
    /\ advances' = IF last'.res = 0 THEN 0 ELSE -1
    /\ UNCHANGED share_status

\* swap_dynamic_type.rs, StreamingReceiveSlice::next
swap_dynamic_type_next(ans) ==
    /\ UNCHANGED asyncVars
    /\ advances < MaxAdvance
    /\ LET old == IF is_some(shared["A"]) THEN "A" ELSE "B"
           new == IF is_some(shared["A"]) THEN "B" ELSE "A"
       IN  dynamic_type_replace_with(old, new, ans)
    /\ advances' = IF advances >= 0 /\ last'.res = 0 /\ Accepted(last')
                   THEN advances + 1 ELSE -1
    /\ UNCHANGED <<share_status, started>>

\* StreamingReceiveSlice::start that records side A whatever allow returned.
Mut_swap_no_dynamic_start(ans) ==
    /\ UNCHANGED asyncVars
    /\ no_dynamic_allow("NA", ans)
    /\ share_status' = "A"
    /\ started' = (started \/ last'.res = 0)
    /\ advances' = IF last'.res = 0 THEN 0 ELSE -1

\* swap_no_dynamic.rs, StreamingReceiveSlice::start
swap_no_dynamic_start(ans) ==
    /\ UNCHANGED asyncVars
    /\ no_dynamic_allow("NA", ans)
    /\ share_status' = IF last'.res = 0 THEN "A" ELSE share_status
    /\ started' = (started \/ last'.res = 0)
    /\ advances' = IF last'.res = 0 THEN 0 ELSE -1

\* StreamingReceiveSlice::next that leaves share_status as it was.
Mut_swap_no_dynamic_next(ans) ==
    /\ UNCHANGED asyncVars
    /\ advances < MaxAdvance
    /\ share_status # "None"
    /\ LET old == IF share_status = "A" THEN "NA" ELSE "NB"
           new == IF share_status = "A" THEN "NB" ELSE "NA"
       IN  no_dynamic_replace_with_mut(old, new, ans)
    /\ advances' = IF advances >= 0 /\ last'.res = 0 THEN advances + 1 ELSE -1
    /\ UNCHANGED <<share_status, started>>

\* swap_no_dynamic.rs, StreamingReceiveSlice::next
swap_no_dynamic_next(ans) ==
    /\ UNCHANGED asyncVars
    /\ advances < MaxAdvance
    /\ live["NA"] /\ live["NB"]
    /\ IF share_status = "None"
       THEN /\ last' = Op("next", "", "", <<>>, NotStreaming, -1, <<>>)
            /\ advances' = -1
            /\ UNCHANGED <<live, shared, kernel, mem, share_status>>
       ELSE LET old == IF share_status = "A" THEN "NA" ELSE "NB"
                new == IF share_status = "A" THEN "NB" ELSE "NA"
                status == IF share_status = "A" THEN "B" ELSE "A"
            IN  /\ no_dynamic_replace_with_mut(old, new, ans)
                /\ share_status' = IF last'.res = 0 THEN status ELSE share_status
                /\ advances' = IF advances >= 0 /\ last'.res = 0
                               THEN advances + 1 ELSE -1
    /\ UNCHANGED started

\* A program holds one stream: of dynamic_type Buffers or of no_dynamic ones.
StreamPrograms == {DtBufs, NdBufs}

StreamInit ==
    /\ live \in {[b \in AllBufs |-> b \in P] : P \in StreamPrograms}
    /\ shared = [b \in AllBufs |-> None]
    /\ kernel = [s \in Ids \X DynamicType |-> NullReg]
    /\ last = NoOp
    /\ mem = [b \in AllBufs |-> 0]
    /\ share_status = "None"
    /\ advances = -1
    /\ started = FALSE
    /\ AsyncInit

StreamNext ==
    \/ \E ans \in Answers : swap_dynamic_type_start(ans)
    \/ \E ans \in Answers : swap_dynamic_type_next(ans)
    \/ \E ans \in Answers : swap_no_dynamic_start(ans)
    \/ \E ans \in Answers : swap_no_dynamic_next(ans)
    \/ \E b \in AllBufs, v \in 0..MaxVal : kernel_write(b, v)

StreamSpec == StreamInit /\ [][StreamNext]_vars

(***************************************************************************)
(* The end of a stream.  StreamingReceiveSlice has no Drop of its own:     *)
(* dropping it drops its fields in the order of declaration, buffer_a and  *)
(* then buffer_b, each with the Drop of its Buffer.                        *)
(***************************************************************************)
\* The Drop of one dynamic_type Buffer, from the system state sys.
dynamic_type_drop_call(sys, b) ==
    IF is_some(shared[b])
    THEN unshare(sys, DRIVER_NUM(b), BUFFER_NUM(b), unwrap(shared[b]))
    ELSE Outcome(sys, 0)

\* Dropping the stream of dynamic_type Buffers with the Drop of buffer_a only.
Mut_swap_dynamic_type_drop ==
    /\ live["A"] /\ live["B"]
    /\ LET r == dynamic_type_drop_call(Start, "A")
       IN  /\ kernel' = r.kernel
           /\ last' = Op("drop_stream", "A", "B", <<>>, -1, -1, r.calls)
    /\ live' = [live EXCEPT !["A"] = FALSE, !["B"] = FALSE]
    /\ UNCHANGED <<shared, otherVars>>

\* Dropping the stream of dynamic_type Buffers.
swap_dynamic_type_drop ==
    /\ live["A"] /\ live["B"]
    /\ LET ra == dynamic_type_drop_call(Start, "A")
           rb == dynamic_type_drop_call(ra, "B")
       IN  /\ kernel' = rb.kernel
           /\ last' = Op("drop_stream", "A", "B", <<>>, -1, -1, rb.calls)
    /\ live' = [live EXCEPT !["A"] = FALSE, !["B"] = FALSE]
    /\ UNCHANGED <<shared, otherVars>>

\* Dropping the stream of no_dynamic Buffers.
swap_no_dynamic_drop ==
    /\ live["NA"] /\ live["NB"]
    /\ LET ra == no_dynamic_unshare(Start, CLASS("NA"), DRIVER_NUM("NA"), BUFFER_NUM("NA"))
           rb == no_dynamic_unshare(ra, CLASS("NB"), DRIVER_NUM("NB"), BUFFER_NUM("NB"))
       IN  /\ kernel' = rb.kernel
           /\ last' = Op("drop_stream", "NA", "NB", <<>>, -1, -1, rb.calls)
    /\ live' = [live EXCEPT !["NA"] = FALSE, !["NB"] = FALSE]
    /\ UNCHANGED <<shared, otherVars>>

StreamDropNext ==
    \/ \E ans \in Answers : swap_dynamic_type_start(ans)
    \/ \E ans \in Answers : swap_dynamic_type_next(ans)
    \/ \E ans \in Answers : swap_no_dynamic_start(ans)
    \/ \E ans \in Answers : swap_no_dynamic_next(ans)
    \/ \E b \in AllBufs, v \in 0..MaxVal : kernel_write(b, v)
    \/ swap_dynamic_type_drop
    \/ swap_no_dynamic_drop

StreamDropSpec == StreamInit /\ [][StreamDropNext]_vars

(***************************************************************************)
(* LwSpec: a client that owns two buffers and uses the Rng and the Console *)
(* driver while the kernel delivers the upcalls.                           *)
(***************************************************************************)
LwInitState ==
    /\ live = [b \in AllBufs |-> FALSE]
    /\ shared = [b \in AllBufs |-> None]
    /\ kernel = [s \in Ids \X DynamicType |-> NullReg]
    /\ last = NoOp
    /\ mem = [b \in AllBufs |-> 0]
    /\ share_status = "None"
    /\ advances = -1
    /\ started = FALSE
    /\ AsyncInit

LwNext ==
    \/ \E b \in LwBufs, rs \in SubscribeAnswers, ra \in CallAnswers,
          rc \in CallAnswers, ru \in CallAnswers : Rng_fetch(b, rs, ra, rc, ru)
    \/ \E b \in LwBufs, rs \in SubscribeAnswers, ra \in CallAnswers,
          rc \in CallAnswers, ru \in CallAnswers : Console_write(b, rs, ra, rc, ru)
    \/ \E ru \in CallAnswers : Rng_callback(ru)
    \/ \E ru \in CallAnswers : Console_callback(ru)

LwSpec == LwInitState /\ [][LwNext]_vars

(***************************************************************************)
(* CellSpec: a client of three StaticMutCells of one type.                 *)
(***************************************************************************)
CellNext ==
    \/ \E c \in Cells : StaticMutCell_get(c)
    \/ \E c \in Cells, r \in Cells : StaticMutCell_unborrow(c, r)

CellSpec == LwInitState /\ [][CellNext]_vars

(***************************************************************************)
(* TaskSpec: a program that spawns futures on one Task.                    *)
(***************************************************************************)
TaskNext == \E f \in Futures, script \in Scripts : Task_spawn(f, script)

TaskSpec == LwInitState /\ [][TaskNext]_vars

(***************************************************************************)
(* RngFutureSpec: a client of RngFuture, the kernel's answers and upcall.  *)
(***************************************************************************)
RngFutureNext ==
    \/ \E b \in LwBufs, rs \in SubscribeAnswers, ra \in CallAnswers,
          rc \in CallAnswers, ru \in CallAnswers : RngFuture_new(b, rs, ra, rc, ru)
    \/ RngFuture_poll
    \/ \E ru \in CallAnswers : RngFuture_callback(ru)

RngFutureSpec == LwInitState /\ [][RngFutureNext]_vars

(***************************************************************************)
(* ButtonSpec: a client of ButtonFuture, the kernel's answers and the      *)
(* button events it delivers.                                              *)
(***************************************************************************)
ButtonNext ==
    \/ \E button \in Buttons, index \in Indexes, new_value \in BOOLEAN,
          rs \in ButtonAnswers, rc \in ButtonAnswers :
            ButtonFuture_new(button, index, new_value, rs, rc)
    \/ \E button \in Buttons : ButtonFuture_poll(button)
    \/ \E index \in Indexes, pressed \in {0, 1, 2} : Button_callback(index, pressed)

ButtonSpec == LwInitState /\ [][ButtonNext]_vars

(***************************************************************************)
(* WakeSpec: a Task whose Waker is at hand and is woken from outside of    *)
(* the polls of the Task.                                                  *)
(***************************************************************************)
WakeNext ==
    \/ \E f \in Futures, script \in Scripts : Task_spawn(f, script)
    \/ \E script \in Scripts : Task_waker_wake(script)

WakeSpec == LwInitState /\ [][WakeNext]_vars

(***************************************************************************)
(* Notions the properties are stated with.                                 *)
(***************************************************************************)
IsShared(b) == is_some(shared[b])

\* The kernel holds a registration, under some id and allow type, that
\* points at the storage of Buffer b.
KernelHolds(b) ==
    /\ Addr(b) # 0
    /\ \E s \in DOMAIN kernel : kernel[s].addr = Addr(b)

\* What buffer() returns on Buffer b in the current state (0 is empty).
Access(b) ==
    CASE b \in DtBufs -> dynamic_type_buffer_ref(b)
      [] b \in FdBufs -> full_dynamic_buffer_ref(b)
      [] OTHER -> StaticBuffer_buffer_ref(b)

\* The slot of the kernel's table that Buffer b recorded when it was shared.
SharedSlot(b) ==
    IF b \in DtBufs
    THEN <<<<DRIVER_NUM(b), BUFFER_NUM(b)>>, unwrap(shared[b])>>
    ELSE <<<<unwrap(shared[b]).driver_num, unwrap(shared[b]).buffer_num>>,
           unwrap(shared[b]).allow_type>>

AccessOps == {"buffer", "buffer_mut"}

(***************************************************************************)
(* C1: for the dynamic_type and full_dynamic Buffers, whenever the kernel  *)
(* holds a registration that points at a Buffer's storage, that Buffer is  *)
(* Shared and buffer()/buffer_mut() on it return None.                     *)
(* Buffer::replace_with breaks it: it allows self's storage again and then *)
(* marks self unshared.                                                    *)
(***************************************************************************)
C1_NoAccessToKernelHeld ==
    \A b \in OwnedBufs :
        (live[b] /\ KernelHolds(b)) => (IsShared(b) /\ Access(b) = 0)

(***************************************************************************)
(* C2 (INV-1): a live owned Buffer that is Shared is registered with the   *)
(* kernel: the registration under its id and allow type points at its      *)
(* storage, address and length.                                            *)
(***************************************************************************)
C2_SharedIsRegistered ==
    \A b \in OwnedBufs :
        (live[b] /\ IsShared(b)) =>
            kernel[SharedSlot(b)] = [addr |-> Addr(b), len |-> size_of_val(b)]

(***************************************************************************)
(* C3: the kernel holds no registration that points at the storage of an   *)
(* owned Buffer that has been dropped.                                     *)
(***************************************************************************)
C3_NoRegistrationOfDropped ==
    \A b \in OwnedBufs : (~live[b]) => ~KernelHolds(b)

(***************************************************************************)
(* C4, as claimed: every buffer()/buffer_mut() returns a populated result  *)
(* if and only if the Buffer is Unshared, a Default StaticBuffer included. *)
(***************************************************************************)
C4_AccessIffUnshared ==
    (last.op \in AccessOps) => ((last.ref # 0) <=> ~IsShared(last.self))

(***************************************************************************)
(* C4, amended: on a Buffer that has storage (a dynamic_type Buffer, a     *)
(* full_dynamic Buffer, a StaticBuffer built from a reference) buffer()    *)
(* and buffer_mut() return the storage if and only if the Buffer is        *)
(* Unshared and None otherwise; a StaticBuffer built with Default holds no *)
(* reference, is never Shared and its buffer() always returns None.        *)
(***************************************************************************)
C4_AccessIffUnsharedWithStorage ==
    (last.op \in AccessOps) =>
        IF last.self \in SbBufs /\ ~is_some(buffer_ref(last.self))
        THEN last.ref = 0 /\ ~IsShared(last.self)
        ELSE /\ IsShared(last.self) => last.ref = 0
             /\ (~IsShared(last.self)) => last.ref = Addr(last.self)

C4_Witness ==
    /\ last.op = "buffer" /\ last.self = "S"
    /\ IsShared("S") /\ last.ref = 0

(***************************************************************************)
(* C5: once allow() has returned Ok on a Buffer, buffer()/buffer_mut()     *)
(* return None on it, and a live Buffer whose access is empty becomes      *)
(* accessible again only by an unallow on it or by a replace_with in which *)
(* it is the side that is replaced.                                        *)
(***************************************************************************)
C5_EmptyUntilReclaim ==
    [][ /\ \A b \in Bufs :
              (last'.op = "allow" /\ last'.self = b /\ last'.res = 0) => Access(b)' = 0
        /\ \A b \in Bufs :
              (live[b] /\ live'[b] /\ IsShared(b) /\ Access(b)' # 0) =>
                  (last'.self = b /\ last'.op \in {"unallow", "replace_with"})
      ]_vars

C5_Witness ==
    /\ live["A"] /\ shared["A"] = Some(Rw) /\ Access("A") = 0
    /\ last.op = "allow" /\ last.self = "F" /\ last.res \notin {0, AlreadyShared}

(***************************************************************************)
(* C6: allow() on a Buffer that is already Shared returns Err(3), makes no *)
(* system call and leaves the Buffers' share states (mode and id recorded) *)
(* and the kernel as they were, whatever mode and id the call names.       *)
(***************************************************************************)
C6_AlreadyShared ==
    [][ (last'.op = "allow" /\ IsShared(last'.self)) =>
            /\ last'.res = AlreadyShared
            /\ last'.calls = <<>>
            /\ shared' = shared
            /\ kernel' = kernel
      ]_vars

C6_Witness ==
    /\ last.op = "allow" /\ last.self = "F" /\ last.res = AlreadyShared
    /\ last.calls = <<>>
    /\ IsShared("F")
    /\ unwrap(shared["F"]).allow_type # last.args[1]
    /\ unwrap(shared["F"]).driver_num # last.args[2]

(***************************************************************************)
(* C7: when allow() on an Unshared Buffer reaches the kernel and the       *)
(* kernel rejects it, the Buffer stays Unshared, buffer() still returns    *)
(* the storage, and the call returns the kernel's error code itself.       *)
(***************************************************************************)
C7_RejectionPassesThrough ==
    [][ \A b \in Bufs :
          (last'.op = "allow" /\ last'.self = b /\ last'.calls # <<>>
              /\ last'.calls[1].ans # 0) =>
                /\ last'.res = last'.calls[1].ans
                /\ Len(last'.calls) = 1
                /\ shared' = shared
                /\ ~IsShared(b)
                /\ Access(b)' = Addr(b)
                /\ kernel' = kernel
      ]_vars

C7_Witness ==
    /\ last.op = "allow" /\ last.self = "S" /\ Len(last.calls) = 1
    /\ last.calls[1].ans = 2 /\ last.res = 2
    /\ ~IsShared("S") /\ Access("S") = Addr("S")

(***************************************************************************)
(* C8: every Allow system call issued by allow() passes the address and    *)
(* the byte length of the Buffer's own storage, the mode asked for and the *)
(* Buffer's id.  StaticBuffer::allow passes the address of a temporary.    *)
(***************************************************************************)
C8_AllowPassesOwnStorage ==
    (last.op = "allow") =>
        \A i \in DOMAIN last.calls :
            /\ last.calls[i].address = Addr(last.self)
            /\ last.calls[i].len = size_of_val(last.self)
            /\ last.calls[i].allow_type = last.args[1]
            /\ last.calls[i].driver_num = last.args[2]
            /\ last.calls[i].allow_num = last.args[3]

(***************************************************************************)
(* C9: after unallow() the Buffer is Unshared, the reference returned is   *)
(* its storage, and the kernel holds no registration that points at that   *)
(* storage.                                                                *)
(***************************************************************************)
C9_UnallowReclaims ==
    (last.op = "unallow") =>
        /\ ~IsShared(last.self)
        /\ last.ref = Addr(last.self)
        /\ ~KernelHolds(last.self)

(***************************************************************************)
(* C10: unallow() is idempotent: an unallow that directly follows an       *)
(* unallow of the same Buffer makes no system call, returns the same       *)
(* reference and changes neither the Buffers nor the kernel's table.       *)
(***************************************************************************)
C10_UnallowIdempotent ==
    [][ (last.op = "unallow" /\ last'.op = "unallow" /\ last'.self = last.self) =>
            /\ last'.calls = <<>>
            /\ last'.ref = last.ref
            /\ shared' = shared
            /\ kernel' = kernel
            /\ live' = live
      ]_vars

C10_Witness ==
    /\ last.op = "unallow" /\ last.repeat
    /\ last.calls = <<>> /\ last.ref = Addr(last.self)
    /\ ~IsShared(last.self)

(***************************************************************************)
(* C11: round trip.  An unallow that directly follows an allow that        *)
(* returned Ok on the same Buffer (no kernel write in between) returns the *)
(* storage with the contents it had when allow was called and leaves the   *)
(* Buffer Unshared and buffer() populated.                                 *)
(***************************************************************************)
C11_RoundTrip ==
    (last.op = "unallow" /\ last.saved # -1) =>
        /\ mem[last.self] = last.saved
        /\ last.ref = Addr(last.self)
        /\ ~IsShared(last.self)
        /\ Access(last.self) = Addr(last.self)

C11_Witness ==
    /\ last.op = "unallow" /\ last.self = "A" /\ last.saved = 1 /\ mem["A"] = 1
    /\ Len(last.calls) = 1 /\ last.calls[1].allow_type = Ro
    /\ ~IsShared("A")

(***************************************************************************)
(* C12: replace_with on a Buffer that is not Shared returns the reference  *)
(* to self's storage with Err(6), makes no system call and changes no      *)
(* Buffer's share state (nor the kernel's table).                          *)
(***************************************************************************)
C12_ExchangeNotShared ==
    [][ \A b \in DtBufs :
          (last'.op = "replace_with" /\ last'.self = b /\ ~IsShared(b)) =>
              /\ last'.res = NotShared
              /\ last'.ref = Addr(b)
              /\ last'.calls = <<>>
              /\ shared' = shared
              /\ kernel' = kernel
      ]_vars

C12_Witness ==
    /\ last.op = "replace_with" /\ last.self = "A" /\ last.other = "B"
    /\ last.res = NotShared /\ last.ref = Addr("A") /\ last.calls = <<>>
    /\ ~IsShared("A") /\ IsShared("B")

(***************************************************************************)
(* C13: replace_with on a Shared Buffer passes other's storage to the      *)
(* Allow, with self's mode and id; when the kernel accepts, self is        *)
(* Unshared, other is Shared with that mode and the kernel's registration  *)
(* under the id points at other's storage and not at self's.               *)
(***************************************************************************)
C13_ExchangeSharesOther ==
    (last.op = "replace_with" /\ last.calls # <<>>) =>
        /\ last.calls[1].address = Addr(last.other)
        /\ last.calls[1].len = size_of_val(last.other)
        /\ last.calls[1].ans = 0 =>
              /\ ~IsShared(last.self)
              /\ shared[last.other] = Some(last.calls[1].allow_type)
              /\ kernel[SharedSlot(last.other)].addr = Addr(last.other)
              /\ ~KernelHolds(last.self)

(***************************************************************************)
(* C14: when the kernel rejects the Allow made by replace_with, self stays *)
(* Shared and the kernel's error code is the result of the call.           *)
(***************************************************************************)
C14_ExchangeRejected ==
    (last.op = "replace_with" /\ last.calls # <<>> /\ last.calls[1].ans # 0) =>
        /\ IsShared(last.self)
        /\ last.res = last.calls[1].ans

(***************************************************************************)
(* C15: in every outcome of replace_with / replace_with_mut the reference  *)
(* returned is to the storage of self, which is live, and not to the       *)
(* storage of other when other is another Buffer; the call does not change *)
(* the contents of any storage.                                            *)
(***************************************************************************)
ExchangeOps == {"replace_with", "replace_with_mut", "replace_with_ro",
                "replace_with_mut_ro"}

C15_ExchangeReturnsSelf ==
    [][ \A b \in AllBufs :
          (last'.op \in ExchangeOps /\ last'.self = b) =>
              /\ last'.ref = Addr(b)
              /\ last'.other # b => last'.ref # Addr(last'.other)
              /\ live[b] /\ live'[b]
              /\ mem' = mem
      ]_vars

C15_Witness ==
    /\ last.op = "replace_with_mut" /\ last.self = "NA" /\ last.other = "NB"
    /\ last.res # 0 /\ last.ref = Addr("NA") /\ mem["NA"] = 1

(***************************************************************************)
(* C16 (INV-2): the storage of a Buffer is never registered with the       *)
(* kernel under two different (driver_num, buffer_num) ids at once, and an *)
(* allow of the full_dynamic variant that names another id than the one a  *)
(* still Shared Buffer recorded makes no system call.                      *)
(***************************************************************************)
IdsHolding(b) ==
    {id \in Ids : \E t \in DynamicType : kernel[<<id, t>>].addr = Addr(b)}

C16_OneIdPerStorage ==
    /\ \A b \in Bufs : Addr(b) # 0 => Cardinality(IdsHolding(b)) <= 1
    /\ \A b \in FdBufs \cup SbBufs :
          (last.op = "allow" /\ last.self = b /\ IsShared(b)
             /\ <<unwrap(shared[b]).driver_num, unwrap(shared[b]).buffer_num>>
                  # <<last.args[2], last.args[3]>>) => last.calls = <<>>

C16_Witness ==
    /\ last.op = "allow" /\ last.self = "F" /\ IsShared("F")
    /\ unwrap(shared["F"]).driver_num = RNG_DRIVER
    /\ last.args[2] = CONSOLE_DRIVER
    /\ last.calls = <<>>
    /\ IdsHolding("F") = {<<RNG_DRIVER, RNG_BUFFER>>}

(***************************************************************************)
(* C17: dropping a dynamic_type or full_dynamic Buffer issues exactly one  *)
(* un-allow, for the id and allow type the Buffer recorded, when it is     *)
(* Shared, and no system call when it is Unshared.                         *)
(***************************************************************************)
C17_DropUnsharesOnce ==
    [][ \A b \in OwnedBufs :
          (last'.op = "drop" /\ last'.self = b) =>
              IF IsShared(b)
              THEN last'.calls =
                     << [driver_num |-> SharedSlot(b)[1][1],
                         allow_num |-> SharedSlot(b)[1][2],
                         address |-> 0, len |-> 0,
                         allow_type |-> SharedSlot(b)[2], ans |-> 0] >>
              ELSE last'.calls = <<>>
      ]_vars

C17_Witness ==
    /\ last.op = "drop" /\ last.self = "A" /\ ~live["A"]
    /\ Len(last.calls) = 1 /\ last.calls[1].allow_type = Ro
    /\ last.calls[1].address = 0

(***************************************************************************)
(* Notions of the stream.  The stream of dynamic_type Buffers has no       *)
(* field for the active side: next() reads it off buffer_a.share_status(). *)
(* A no_dynamic Buffer has no field that says whether it is shared: the    *)
(* side is Shared while the kernel's registration points at its storage.   *)
(***************************************************************************)
SideA == IF live["A"] THEN "A" ELSE "NA"
SideB == IF live["A"] THEN "B" ELSE "NB"
Side(x) == IF x = "A" THEN SideA ELSE SideB

active_side ==
    IF live["NA"] THEN share_status
    ELSE IF is_some(shared["A"]) THEN "A"
    ELSE IF is_some(shared["B"]) THEN "B" ELSE "None"

SideShared(b) == IF b \in DtBufs THEN IsShared(b) ELSE KernelHolds(b)

\* The kernel's registration under the id and allow type of the stream.
StreamSlot == <<<<DRIVER_NUM(SideA), BUFFER_NUM(SideA)>>, Rw>>

(***************************************************************************)
(* C18 (INV-3): the two sides of a stream are never Shared both, and once  *)
(* start() has returned Ok the active side is not None and exactly one     *)
(* side is Shared, whatever the kernel answers to the next() calls.        *)
(***************************************************************************)
C18_OneSideShared ==
    /\ ~(SideShared(SideA) /\ SideShared(SideB))
    /\ started => /\ active_side # "None"
                  /\ SideShared(SideA) \/ SideShared(SideB)

(***************************************************************************)
(* C19: a next() that returns Ok flips the active side; after it the       *)
(* kernel's registration under the stream's id points at the storage of    *)
(* the side that is now active, and the storage returned to the caller is  *)
(* not registered with the kernel.                                         *)
(***************************************************************************)
C19_AdvanceSwaps ==
    [][ \A b \in AllBufs :
          (last'.op \in ExchangeOps /\ last'.res = 0 /\ last'.self = b) =>
              /\ active_side # "None"
              /\ active_side' = (IF active_side = "A" THEN "B" ELSE "A")
              /\ b = Side(active_side)
              /\ last'.ref = Addr(b)
              /\ kernel'[StreamSlot].addr = Addr(Side(active_side'))
              /\ ~KernelHolds(b)'
      ]_vars

(***************************************************************************)
(* C20: in a run where the kernel accepts every Allow, start() shares side *)
(* A, and the n-th next() after it returns the storage of side A when n is *)
(* odd and of side B when n is even; the active side is B after an odd     *)
(* number of next() calls and A after an even number.                      *)
(***************************************************************************)
C20_Alternates ==
    advances >= 0 =>
        /\ active_side = (IF advances % 2 = 0 THEN "A" ELSE "B")
        /\ (advances = 0 /\ last.op = "allow") =>
              /\ last.self = SideA
              /\ last.calls[1].address = Addr(SideA)
              /\ kernel[StreamSlot].addr = Addr(SideA)
        /\ (advances > 0 /\ last.op \in ExchangeOps) =>
              last.ref = Addr(IF advances % 2 = 1 THEN SideA ELSE SideB)

C20_Witness ==
    /\ advances = 2 /\ last.op = "replace_with_mut"
    /\ last.self = "NB" /\ last.ref = Addr("NB")
    /\ share_status = "A" /\ kernel[StreamSlot].addr = Addr("NA")

(***************************************************************************)
(* C21: when the kernel rejects the Allow made by next(), the active side  *)
(* stays what it was, the side that was active is still Shared, the other  *)
(* side is still not, and next() returns the kernel's error.               *)
(***************************************************************************)
C21_RejectedAdvance ==
    [][ (last'.op \in ExchangeOps /\ last'.calls # <<>> /\ last'.calls[1].ans # 0) =>
            /\ active_side' = active_side
            /\ SideShared(Side(active_side))'
            /\ ~SideShared(Side(IF active_side = "A" THEN "B" ELSE "A"))'
            /\ last'.res = last'.calls[1].ans
      ]_vars

(***************************************************************************)
(* C22: next() on a stream whose start() never returned Ok fails with      *)
(* NotStreaming, makes no system call and leaves the stream not started,   *)
(* with neither side Shared.                                               *)
(***************************************************************************)
NextOps == ExchangeOps \cup {"next"}

C22_AdvanceNotStarted ==
    [][ (last'.op \in NextOps /\ ~started) =>
            /\ last'.res = NotStreaming
            /\ last'.calls = <<>>
            /\ kernel' = kernel
            /\ active_side' = "None"
            /\ ~SideShared(SideA)' /\ ~SideShared(SideB)'
      ]_vars

(***************************************************************************)
(* C23: when the kernel rejects the Allow made by start() on a stream that *)
(* is not started, start() returns the kernel's error, the active side     *)
(* stays None and neither side is Shared.                                  *)
(***************************************************************************)
C23_RejectedStart ==
    [][ (last'.op = "allow" /\ ~started /\ last'.calls # <<>>
           /\ last'.calls[1].ans # 0) =>
            /\ last'.res = last'.calls[1].ans
            /\ ~started'
            /\ active_side' = "None"
            /\ ~SideShared(SideA)' /\ ~SideShared(SideB)'
      ]_vars

C23_Witness ==
    /\ last.op = "allow" /\ last.self = "NA" /\ last.res = 2
    /\ ~started /\ share_status = "None" /\ ~KernelHolds("NA")

(***************************************************************************)
(* C24: once a stream has been dropped, the kernel holds no registration   *)
(* under the id of the stream, whatever start() and next() calls, accepted *)
(* or rejected, came before; a stream that was started issues an un-allow. *)
(***************************************************************************)
C24_DropUnregisters ==
    last.op = "drop_stream" =>
        /\ \A t \in DynamicType :
              kernel[<<<<DRIVER_NUM(last.self), BUFFER_NUM(last.self)>>, t>>] = NullReg
        /\ started => last.calls # <<>>

C24_Witness ==
    /\ last.op = "drop_stream" /\ last.self = "A" /\ started
    /\ shared["A"] = None /\ shared["B"] = Some(Rw)
    /\ Len(last.calls) = 1 /\ last.calls[1].address = 0

(***************************************************************************)
(* C25: when buffer(), buffer_mut(), replace_with() or replace_with_mut()  *)
(* of a no_dynamic StaticRw Buffer has returned the reference to the       *)
(* Buffer's storage, the kernel holds no registration that points at that  *)
(* storage, whatever the kernel answered inside the operation.             *)
(***************************************************************************)
C25_HandedOutIsUnshared ==
    (last.op \in AccessOps \cup ExchangeOps /\ last.self \in NdBufs
       /\ last.ref = Addr(last.self)) => ~KernelHolds(last.self)

(***************************************************************************)
(* C26: drop, buffer() of a StaticRw Buffer and buffer_mut() of a          *)
(* no_dynamic Buffer each issue one un-allow for the Buffer's (DRIVER_NUM,  *)
(* BUFFER_NUM), whether or not this Buffer is the one the kernel holds;    *)
(* after them the kernel holds no registration under that id, read-write   *)
(* or read-only.                                                           *)
(***************************************************************************)
UnshareOps == {"drop", "buffer", "buffer_mut"}

C26_UnconditionalUnshare ==
    [][ \A b \in NoDynamicBufs :
          (last'.op \in UnshareOps /\ last'.self = b
             /\ (last'.op = "buffer" => CLASS(b) = Rw)) =>
              /\ last'.calls =
                   << [driver_num |-> DRIVER_NUM(b), allow_num |-> BUFFER_NUM(b),
                       address |-> 0, len |-> 0, allow_type |-> CLASS(b),
                       ans |-> 0] >>
              /\ \A t \in DynamicType :
                    kernel'[<<<<DRIVER_NUM(b), BUFFER_NUM(b)>>, t>>] = NullReg
      ]_vars

(***************************************************************************)
(* C27: when the un-allow fails inside the callback of the Rng or Console  *)
(* driver, the driver keeps its stored buffer pointer, the client is       *)
(* notified with None (only), and every later fetch() / write() of that    *)
(* driver returns EBUSY.                                                   *)
(***************************************************************************)
RequestOps == {"fetch", "write"}

C27_PoisonedOnFailedUnallow ==
    [][ \A d \in LwDrivers :
          /\ (last'.op = "callback" /\ last'.self = d /\ last'.calls[1].ans # 0) =>
                /\ buffer_data'[d] = buffer_data[d]
                /\ buffer_data'[d] # 0
                /\ delivered' = <<None>>
          /\ (last'.op \in RequestOps /\ last'.self = d /\ poisoned[d]) =>
                last'.res = EBUSY
      ]_vars

(***************************************************************************)
(* C28: while a fetch() / write() that returned Ok waits for its callback, *)
(* every further fetch() / write() of the driver returns EBUSY with the    *)
(* caller's buffer, makes no system call and leaves the stored buffer as   *)
(* it is; after the callback the stored pointer is null and a request is   *)
(* not refused with EBUSY.                                                 *)
(***************************************************************************)
C28_OneOutstanding ==
    [][ \A d \in LwDrivers :
          /\ (last'.op \in RequestOps /\ last'.self = d /\ pending[d]) =>
                /\ last'.res = EBUSY
                /\ last'.ref = as_mut_ptr(last'.other)
                /\ owner'[last'.other] = "client"
                /\ last'.calls = <<>>
                /\ buffer_data'[d] = buffer_data[d]
                /\ buffer_len'[d] = buffer_len[d]
                /\ pending'[d]
          /\ (last'.op = "callback" /\ last'.self = d) =>
                /\ buffer_data'[d] = 0
                /\ ~pending'[d]
          /\ (last'.op \in RequestOps /\ last'.self = d /\ ~pending[d]) =>
                last'.res # EBUSY
      ]_vars

C28_Witness ==
    /\ last.op = "fetch" /\ last.self = "rng" /\ last.other = "Y"
    /\ last.res = EBUSY /\ last.ref = as_mut_ptr("Y") /\ last.calls = <<>>
    /\ pending["rng"] /\ buffer_data["rng"] = as_mut_ptr("X")
    /\ owner["X"] = "rng" /\ owner["Y"] = "client"

(***************************************************************************)
(* C29: a StaticMutCell has at most one live reference to its value.       *)
(* get() returns Some exactly when the cell is not borrowed, and never     *)
(* while a reference it handed out is live; unborrow() clears the borrow   *)
(* of the cell exactly when the reference given is to this cell's value,   *)
(* and leaves the cell as it was otherwise.                                *)
(***************************************************************************)
C29_OneLiveReference ==
    [][ \A c \in Cells :
          /\ refs'[c] <= 1
          /\ refs'[c] = 1 => borrowed'[c]
          /\ (last'.op = "get" /\ last'.self = c) =>
                /\ (last'.ref = value_get(c)) = ~borrowed[c]
                /\ (last'.ref = 0) = borrowed[c]
                /\ last'.ref # 0 => refs[c] = 0
                /\ borrowed'[c]
          /\ (last'.op = "unborrow" /\ last'.self = c) =>
                borrowed'[c] = (IF last'.other = c THEN FALSE ELSE borrowed[c])
      ]_vars

C29_Witness ==
    /\ last.op = "unborrow" /\ last.self = "c1" /\ last.other = "c2"
    /\ borrowed["c1"] /\ refs["c1"] = 1
    /\ borrowed["c2"] /\ refs["c2"] = 0

(***************************************************************************)
(* C30: a spawn() made from inside the poll of the Task's future returns   *)
(* Err(CurrentlyPolling) and leaves the stored future as it is; a spawn()  *)
(* made at any other time stores the new future, polls it at least once    *)
(* before it returns, and returns Ok.                                      *)
(***************************************************************************)
C30_SpawnPolls ==
    last.op = "spawn" =>
        /\ \A i \in DOMAIN last.args[2] : last.args[2][i] = CurrentlyPolling
        /\ last.res = 0
        /\ future = Some(last.self)
        /\ polls >= 1

(***************************************************************************)
(* C31: a wake made while no poll of the Task runs polls the stored future *)
(* at once; a wake the future makes during its poll does not poll again    *)
(* from inside but makes the loop poll once more after a poll that         *)
(* returned Pending; the loop ends with the first poll that returned Ready *)
(* or during which no wake was made, and leaves pending_poll false.        *)
(***************************************************************************)
RECURSIVE PollsDue(_)
\* The polls the script asks of one run of the loop of poll_future.
PollsDue(script) ==
    IF script = <<>> THEN 1
    ELSE IF Head(script).woke /\ ~Head(script).ready THEN 1 + PollsDue(Tail(script))
    ELSE 1

C31_WakePolls ==
    [][ last'.op = "wake" =>
          IF future = None
          THEN polls' = polls /\ future' = None /\ pending_poll' = pending_poll
          ELSE /\ polls' = polls + PollsDue(last'.args[1])
               /\ polls' > polls
               /\ ~pending_poll'
               /\ future' = future
               /\ \A i \in DOMAIN last'.args[2] : last'.args[2][i] = CurrentlyPolling
      ]_vars

C31_Witness ==
    /\ last.op = "wake" /\ Len(last.args[1]) = 2
    /\ last.args[1][1].woke /\ ~last.args[1][1].ready
    /\ last.args[1][2].woke /\ last.args[1][2].ready
    /\ future # None /\ polls = 2 /\ ~pending_poll

(***************************************************************************)
(* C32: a fetch() / write() whose command fails after the buffer was       *)
(* allowed makes the un-allow call and returns FAIL, with Some(buffer)     *)
(* exactly when the un-allow returned 0 and with None otherwise; one whose *)
(* subscribe or allow fails returns the buffer and makes no un-allow call; *)
(* after each of these failures the driver has no stored buffer, so that   *)
(* its next request is not refused with EBUSY.                             *)
(***************************************************************************)
\* The request of the step passed the busy check and returned an error.
FailedRequest(op) == op.op \in RequestOps /\ op.calls # <<>> /\ op.res # 0

C32_FailedRequest ==
    [][ /\ FailedRequest(last') =>
            LET calls == last'.calls
                d == last'.self
                buffer == last'.other
                unallow == [call |-> "allow", driver_num |-> lw_DRIVER_NUM(d),
                            num |-> lw_BUFFER_NUM(d), a1 |-> 0, a2 |-> 0]
            IN  /\ calls[1].call = "subscribe"
                /\ calls[1].ans # 0 =>
                      /\ Len(calls) = 1
                      /\ last'.ref = as_mut_ptr(buffer)
                /\ (calls[1].ans = 0 /\ calls[2].ans # 0) =>
                      /\ Len(calls) = 2
                      /\ calls[2].call = "allow" /\ calls[2].a1 = as_mut_ptr(buffer)
                      /\ last'.res = FAIL
                      /\ last'.ref = as_mut_ptr(buffer)
                /\ (calls[1].ans = 0 /\ calls[2].ans = 0) =>
                      /\ Len(calls) = 4
                      /\ calls[3].call = "command" /\ calls[3].ans # 0
                      /\ [f \in DOMAIN unallow |-> calls[4][f]] = unallow
                      /\ last'.res = FAIL
                      /\ last'.ref = IF calls[4].ans = 0 THEN as_mut_ptr(buffer) ELSE 0
                      /\ owner'[buffer] = IF calls[4].ans = 0 THEN "client" ELSE "kernel"
                /\ Len(calls) < 4 => owner'[buffer] = "client"
                /\ buffer_data'[d] = 0 /\ ~pending'[d]
        /\ (last'.op \in RequestOps /\ FailedRequest(last) /\ last'.self = last.self) =>
              last'.res # EBUSY
      ]_vars

C32_Witness ==
    /\ last.op = "write" /\ last.self = "console" /\ last.other = "Y"
    /\ last.res = FAIL /\ last.ref = 0 /\ Len(last.calls) = 4
    /\ last.calls[3].ans = FAIL /\ last.calls[4].ans = FAIL
    /\ buffer_data["console"] = 0 /\ owner["Y"] = "kernel"

(***************************************************************************)
(* C33: the callback of the Rng or Console driver invokes the forwarder    *)
(* exactly once: with Some(buffer of the outstanding request) when the     *)
(* un-allow returned 0, with None when it did not.                         *)
(***************************************************************************)
C33_OneInvocation ==
    [][ \A d \in LwDrivers :
          (last'.op = "callback" /\ last'.self = d) =>
              /\ Len(delivered') = 1
              /\ delivered'[1] =
                    IF last'.calls[1].ans = 0
                    THEN Some(from_raw_parts_mut(buffer_data[d], buffer_len[d]))
                    ELSE None
      ]_vars

(***************************************************************************)
(* C34: RngFuture::new returns Ok only from Idle and then leaves Busy; in  *)
(* Busy, Done and LostBuffer it returns EBUSY and leaves the state as it   *)
(* is.  poll returns Pending and stays Busy until the callback has run.    *)
(* The callback leaves Done(buffer of the request) when its un-allow       *)
(* succeeded and LostBuffer when it failed; the poll after it returns      *)
(* Ready(Ok(buffer)) for Done and Ready(Err(LostBufferError)) for          *)
(* LostBuffer, and leaves Idle.                                            *)
(***************************************************************************)
C34_StateMachine ==
    [][ /\ ret'.op = "new" =>
            /\ ret'.res = "Ok" <=> (rng_STATE = State_Idle /\ last'.res = 0)
            /\ ret'.res = "Ok" =>
                  /\ rng_STATE' = State_Busy
                  /\ buffer_data'["rng"] = as_mut_ptr(last'.other)
                  /\ buffer_len'["rng"] = len(last'.other)
            /\ rng_STATE # State_Idle => (ret'.code = EBUSY /\ rng_STATE' = rng_STATE)
        /\ (ret'.op = "poll" /\ rng_STATE = State_Busy) =>
              (ret'.res = "Pending" /\ rng_STATE' = State_Busy)
        /\ ret'.op = "callback" =>
              /\ rng_STATE = State_Busy
              /\ rng_STATE' = IF last'.calls[1].ans = 0
                          THEN State_Done(from_raw_parts_mut(buffer_data["rng"],
                                                             buffer_len["rng"]))
                          ELSE State_LostBuffer
        /\ (ret'.op = "poll" /\ ret.op = "callback") =>
              /\ ret'.res = IF rng_STATE[1] = "Done" THEN "ReadyOk" ELSE "ReadyErr"
              /\ rng_STATE[1] = "Done" => ret'.buffer = Some(rng_STATE[2])
              /\ rng_STATE' = State_Idle
      ]_vars

(***************************************************************************)
(* C35: BUTTON_LIST is a finite list without a cycle that holds each       *)
(* Button at most once, whatever calls of ButtonFuture::new and events     *)
(* came before, and every run of FutureForwarder::invoke_callback ends.    *)
(***************************************************************************)
RECURSIVE EndsWithin(_, _)
\* Following `next` from opt_button comes to None in at most n steps.
EndsWithin(opt_button, n) ==
    IF opt_button = None THEN TRUE
    ELSE IF n = 0 THEN FALSE
    ELSE EndsWithin(button_next[opt_button[1]], n - 1)

C35_ListAcyclic ==
    /\ EndsWithin(BUTTON_LIST, Cardinality(Buttons))
    /\ ~hung

(***************************************************************************)
(* C36: a button event makes every Button that is WaitingFor an event      *)
(* equal to it Fired, wherever the Button is in the list, and leaves every *)
(* Button that is WaitingFor another event as it is.                       *)
(***************************************************************************)
C36_EventFiresAll ==
    [][ (bret'.op = "callback" /\ bret'.res = "Event") =>
          \A b \in Buttons :
              button_state[b][1] = "WaitingFor" =>
                  button_state'[b] = IF button_state[b][2] = bret'.event
                                     THEN ButtonState_Fired
                                     ELSE button_state[b]
      ]_vars

(***************************************************************************)
(* C37: ButtonFuture::new returns EBUSY only for a Button that is          *)
(* WaitingFor an event; for a Button whose event has fired and whose       *)
(* future's poll has returned Ready it does not return EBUSY.              *)
(***************************************************************************)
C37_BusyOnlyWhileWaiting ==
    [][ (bret'.op = "new" /\ bret'.res = "Err" /\ bret'.code = EBUSY) =>
            /\ button_state[bret'.button][1] = "WaitingFor"
            /\ ~(bret.op = "poll" /\ bret.res = "Ready" /\ bret.button = bret'.button)
      ]_vars

====
